---- MODULE Spec2Model ----
(***************************************************************************)
(* A model of the ModelEyes differential UI-state engine: the LRU cache,   *)
(* the UI state cache, the diff engine, patch application, the MCP servers *)
(* and the context compactor.                                              *)
(*                                                                         *)
(* JavaScript values are modelled as follows.                              *)
(*   - an optional value (T | undefined) is a sequence of length <= 1:     *)
(*     <<>> is undefined (or an absent property), <<v>> is v;              *)
(*   - a Map or an object used as a dictionary is a sequence of            *)
(*     <<key, value>> pairs with distinct keys, in insertion order;        *)
(*   - a string is a TLA+ string.                                          *)
(***************************************************************************)
EXTENDS Integers, Sequences, FiniteSets, TLC

VARIABLES
  lru,      \* SpecLRU: an LRUCache<string, V> instance
  lruLast,  \* SpecLRU: the last call made on lru, its result and the instance before it
  sc,       \* SpecCache: a UIStateCache instance
  scLast,   \* SpecCache: the last call made on sc, its result and the instance before it
  srv,      \* SpecServer: an OpenAIMCPServer (a BaseMCPServer with a state cache)
  srvLast,  \* SpecServer: the last call made on srv, whether it threw, the server before it
  df,       \* SpecDiff: two snapshots, the patch between them and the patched snapshots
  cx,       \* SpecCompact: an OpenAIMCPServer asked for model contexts
  cxLast,   \* SpecCompact: the last call made on cx, its result and the server before it
  ch,       \* SpecChain: three snapshots, a UIStateCache and the patched snapshots
  cl,       \* SpecClient: a WebMCPClient, a server that listens to it, and the heap of their objects
  pa,       \* SpecPatch: a snapshot, a patch, and the snapshot patched by the cache and by the server
  ec,       \* SpecCaches: an ElementCache or a UIStateCache, and a cache built when it was last cleared
  fl,       \* SpecFilter: a snapshot, filter options, and the snapshot filtered and compressed
  nt,       \* SpecNotify: the subscribers and the snapshot cache of a client, and its last delivery
  wv,       \* SpecVersions: a WebMCPClient whose captureState calls are under way, and its updates
  hs        \* SpecHistory: a BaseMCPServer and the states it has processed

vars == <<lru, lruLast, sc, scLast, srv, srvLast, df, cx, cxLast, ch, cl, pa, ec,
          fl, nt, wv, hs>>

(***************************************************************************)
(* Optional values and insertion-ordered dictionaries                      *)
(***************************************************************************)
None == <<>>
Some(v) == <<v>>
IsSome(o) == Len(o) = 1
Val(o) == o[1]

MKeys(m) == [i \in 1..Len(m) |-> m[i][1]]
MKeySet(m) == {m[i][1] : i \in 1..Len(m)}
MHas(m, k) == \E i \in 1..Len(m) : m[i][1] = k
MGet(m, k) == m[CHOOSE i \in 1..Len(m) : m[i][1] = k][2]
MLookup(m, k) == IF MHas(m, k) THEN Some(MGet(m, k)) ELSE None
MPut(m, k, v) ==
  IF MHas(m, k)
  THEN [i \in 1..Len(m) |-> IF m[i][1] = k THEN <<k, v>> ELSE m[i]]
  ELSE Append(m, <<k, v>>)
MDelTest(p, k) == p[1] # k
MDel(m, k) == SelectSeq(m, LAMBDA p : MDelTest(p, k))
MSize(m) == Len(m)

\* The element of a set of one element. Only({Body(v) : v \in {value}}) is
\* Body of a value that is computed once: a const declaration whose
\* initialiser is costly
Only(S) == CHOOSE r \in S : TRUE

(***************************************************************************)
(* Bounds of the model                                                     *)
(***************************************************************************)
MaxCap == 2        \* capacities 0..MaxCap are tried
MaxAccess == 5     \* calls stop once accessCounter has reached this value
MaxCacheAccess == 3 \* calls on the state cache stop once its accessCounter has reached this
MaxTime == 2       \* timestamps 1..MaxTime are tried
MaxHistory == 2    \* config.contextManagement.maxHistoryStates is absent or 0..MaxHistory
MaxServerCalls == 3 \* calls made on a server
MaxLoads == 1       \* snapshots given to the server that is asked for contexts
MaxContextCalls == 1 \* contexts that are returned by one server

LRUKeys == {"", "a", "b", "c"}
LRUVals == {"x", "y"}

(***************************************************************************)
(* LRUCache<K, V>                                                          *)
(***************************************************************************)
\* JavaScript truthiness of a string key: only the empty string is falsy.
Truthy(k) == k # ""

\* constructor(capacity)
NewLRU(capacity) ==
  [capacity |-> capacity, cache |-> <<>>, usage |-> <<>>, accessCounter |-> 0]

RECURSIVE FindLRUFrom(_, _, _, _)
\* The loop of findLRUKey over usage.entries(): lruKey is an optional key,
\* lruCount is the smallest count so far (inf: still Infinity).
FindLRUFrom(usage, i, lruKey, lruCount) ==
  IF i > Len(usage) THEN lruKey
  ELSE IF lruCount = None \/ usage[i][2] < Val(lruCount)
       THEN FindLRUFrom(usage, i + 1, Some(usage[i][1]), Some(usage[i][2]))
       ELSE FindLRUFrom(usage, i + 1, lruKey, lruCount)

\* findLRUKey(): the key of the smallest usage count, undefined when empty
findLRUKey(c) == FindLRUFrom(c.usage, 1, None, None)

\* A faulty get: a miss counts as an access too
LRUGet_CountsMisses(c, key) ==
  IF ~MHas(c.cache, key)
  THEN [c |-> [c EXCEPT !.accessCounter = c.accessCounter + 1], result |-> None]
  ELSE [c |-> [c EXCEPT !.usage = MPut(c.usage, key, c.accessCounter + 1),
                        !.accessCounter = c.accessCounter + 1],
        result |-> Some(MGet(c.cache, key))]

\* get(key): [c |-> the instance afterwards, result |-> V | undefined]
LRUGet(c, key) ==
  IF ~MHas(c.cache, key)
  THEN [c |-> c, result |-> None]
  ELSE [c |-> [c EXCEPT !.usage = MPut(c.usage, key, c.accessCounter + 1),
                        !.accessCounter = c.accessCounter + 1],
        result |-> Some(MGet(c.cache, key))]

\* The eviction step of set: the instance after the if block of lines 55-61
LRUEvict(c, key) ==
  IF MSize(c.cache) >= c.capacity /\ ~MHas(c.cache, key)
  THEN LET lruKey == findLRUKey(c)
       IN IF IsSome(lruKey) /\ Truthy(Val(lruKey))
          THEN [c EXCEPT !.cache = MDel(c.cache, Val(lruKey)),
                         !.usage = MDel(c.usage, Val(lruKey))]
          ELSE c
  ELSE c

\* set(key, value)
LRUSet(c, key, value) ==
  LET e == LRUEvict(c, key)
  IN [e EXCEPT !.cache = MPut(e.cache, key, value),
               !.usage = MPut(e.usage, key, e.accessCounter + 1),
               !.accessCounter = e.accessCounter + 1]

\* has(key)
LRUHas(c, key) == MHas(c.cache, key)

\* delete(key): [c |-> the instance afterwards, result |-> whether removed]
LRUDelete(c, key) ==
  IF MHas(c.cache, key)
  THEN [c |-> [c EXCEPT !.cache = MDel(c.cache, key), !.usage = MDel(c.usage, key)],
        result |-> TRUE]
  ELSE [c |-> c, result |-> FALSE]

\* A faulty clear: the usage counts are kept
LRUClear_KeepsUsage(c) == [c EXCEPT !.cache = <<>>, !.accessCounter = 0]

\* clear()
LRUClear(c) == [c EXCEPT !.cache = <<>>, !.usage = <<>>, !.accessCounter = 0]

\* size()
LRUSize(c) == MSize(c.cache)

(***************************************************************************)
(* SpecLRU: one LRUCache<string, V> driven by arbitrary calls              *)
(***************************************************************************)
LRUCall(op, key, pre, result) ==
  [op |-> op, key |-> key, pre |-> pre, result |-> result]

\* The variables of the other specifications, which SpecLRU leaves alone
LRUOthers == <<sc, scLast, srv, srvLast, df, cx, cxLast, ch, cl, pa, ec,
               fl, nt, wv, hs>>
LRUOthersInit ==
  /\ sc = None
  /\ scLast = None
  /\ srv = None
  /\ srvLast = None
  /\ df = None
  /\ cx = None
  /\ cxLast = None
  /\ ch = None
  /\ cl = None
  /\ pa = None
  /\ ec = None
  /\ fl = None
  /\ nt = None
  /\ wv = None
  /\ hs = None

LRUInit ==
  /\ \E n \in 0..MaxCap : lru = NewLRU(n)
  /\ lruLast = LRUCall("new", "", lru, None)
  /\ LRUOthersInit

LRUGetStep ==
  \E k \in LRUKeys :
    /\ lru.accessCounter < MaxAccess
    /\ lru' = LRUGet(lru, k).c
    /\ lruLast' = LRUCall("get", k, lru, LRUGet(lru, k).result)
    /\ UNCHANGED LRUOthers

LRUSetStep ==
  \E k \in LRUKeys, v \in LRUVals :
    /\ lru.accessCounter < MaxAccess
    /\ lru' = LRUSet(lru, k, v)
    /\ lruLast' = LRUCall("set", k, lru, None)
    /\ UNCHANGED LRUOthers

LRUHasStep ==
  \E k \in LRUKeys :
    /\ lru' = lru
    /\ lruLast' = LRUCall("has", k, lru, Some(LRUHas(lru, k)))
    /\ UNCHANGED LRUOthers

LRUDeleteStep ==
  \E k \in LRUKeys :
    /\ lru' = LRUDelete(lru, k).c
    /\ lruLast' = LRUCall("delete", k, lru, Some(LRUDelete(lru, k).result))
    /\ UNCHANGED LRUOthers

LRUClearStep ==
  /\ lru' = LRUClear(lru)
  /\ lruLast' = LRUCall("clear", "", lru, None)
  /\ UNCHANGED LRUOthers

LRUNext ==
  \/ LRUGetStep
  \/ LRUSetStep
  \/ LRUHasStep
  \/ LRUDeleteStep
  \/ LRUClearStep

SpecLRU == LRUInit /\ [][LRUNext]_vars

(***************************************************************************)
(* Claims about LRUCache (checked under SpecLRU)                           *)
(***************************************************************************)
LRUPresent(c) == MKeySet(c.cache)

\* The key of c whose most recent set or get is the oldest
LRUOldest(c) ==
  CHOOSE k \in MKeySet(c.usage) :
    \A j \in MKeySet(c.usage) : MGet(c.usage, k) <= MGet(c.usage, j)

\* The last call was a set of a new key into a non-empty cache at capacity
LRUSetNewAtCapacity ==
  /\ lruLast.op = "set"
  /\ ~MHas(lruLast.pre.cache, lruLast.key)
  /\ MSize(lruLast.pre.cache) >= lruLast.pre.capacity
  /\ MSize(lruLast.pre.cache) > 0

\* C3: when set inserts a new key into a cache that is at capacity, exactly
\* one key is evicted, and it is the key whose most recent set or get is the
\* oldest; the new key and every other key stay.
C3_EvictsExactlyTheLRUKey ==
  LRUSetNewAtCapacity =>
    /\ LRUPresent(lruLast.pre) \ LRUPresent(lru) = {LRUOldest(lruLast.pre)}
    /\ LRUPresent(lru) = (LRUPresent(lruLast.pre) \ {LRUOldest(lruLast.pre)})
                           \cup {lruLast.key}

\* C4: a cache built with capacity N >= 1 never holds more than N entries,
\* whatever calls are made and whatever the keys are.
C4_SizeWithinCapacity ==
  lru.capacity >= 1 => LRUSize(lru) <= lru.capacity

\* C5: a cache built with capacity 0 never retains anything: size() is 0 and
\* has and get report every key as absent.
C5_CapacityZeroRetainsNothing ==
  lru.capacity = 0 =>
    /\ LRUSize(lru) = 0
    /\ \A k \in LRUKeys : ~LRUHas(lru, k) /\ LRUGet(lru, k).result = None

(***************************************************************************)
(* The data model: UIElement, UIState, DifferentialUpdate                  *)
(*                                                                         *)
(* An element is a record of all the properties of UIElement, the optional *)
(* ones as optional values. A partial element (an entry of modified) is a  *)
(* dictionary from property names to property values: a property that is   *)
(* present with the value undefined is the pair <<name, None>>. null (for  *)
(* focus and hover of an update) is the string Null, which is no id.       *)
(***************************************************************************)
Null == "<null>"

\* A number of bounds is counted in halves: n, and n + 0.5
Whole(n) == 2 * n
AndAHalf(n) == 2 * n + 1

Bounds(x, y, w, h) == [x |-> x, y |-> y, width |-> w, height |-> h]

\* interface UIElement
Element(id, type, text, bounds, interactable) ==
  [id |-> id, type |-> type, text |-> text, attributes |-> None,
   bounds |-> bounds, interactable |-> interactable, visible |-> None,
   children |-> None, parent |-> None, zIndex |-> None, styles |-> None]

\* interface UIState
UIState(version, timestamp, elements, focus) ==
  [timestamp |-> timestamp, platform |-> "web", application |-> "app",
   title |-> "t", url |-> None, viewport |-> [width |-> 8, height |-> 6],
   elements |-> elements, focus |-> focus, hover |-> None, version |-> version]

\* interface DifferentialUpdate
Update(baseVersion, version, timestamp, added, modified, removed, focus, hover) ==
  [timestamp |-> timestamp, added |-> added, modified |-> modified,
   removed |-> removed, focus |-> focus, hover |-> hover,
   baseVersion |-> baseVersion, version |-> version]

\* JSON.parse(JSON.stringify(state)): a deep copy. Properties whose value is
\* undefined are dropped, which the encoding of undefined and absent as the
\* same None already says; the order of the keys is kept.
JSONClone(state) == state

(***************************************************************************)
(* Patch application, as written in UIStateCache.applyUpdate               *)
(***************************************************************************)
RECURSIVE ObjectAssignFrom(_, _, _)
ObjectAssignFrom(target, changes, i) ==
  IF i > Len(changes) THEN target
  ELSE ObjectAssignFrom([target EXCEPT ![changes[i][1]] = changes[i][2]],
                        changes, i + 1)

\* A faulty merge: only the first property of the changes is copied
ObjectAssign_FirstOnly(target, changes) ==
  IF Len(changes) = 0 THEN target
  ELSE [target EXCEPT ![changes[1][1]] = changes[1][2]]

\* Object.assign(target, changes)
ObjectAssign(target, changes) == ObjectAssignFrom(target, changes, 1)

RECURSIVE AddElementsFrom(_, _, _)
AddElementsFrom(elements, added, i) ==
  IF i > Len(added) THEN elements
  ELSE AddElementsFrom(MPut(elements, added[i][1], added[i][2]), added, i + 1)

\* if (update.added) for (const [id, element] of ...) elements[id] = element
AddElements(elements, added) ==
  IF IsSome(added) THEN AddElementsFrom(elements, Val(added), 1) ELSE elements

RECURSIVE ModifyElementsFrom(_, _, _)
ModifyElementsFrom(elements, modified, i) ==
  IF i > Len(modified) THEN elements
  ELSE ModifyElementsFrom(
         IF MHas(elements, modified[i][1])
         THEN MPut(elements, modified[i][1],
                   ObjectAssign(MGet(elements, modified[i][1]), modified[i][2]))
         ELSE elements,
         modified, i + 1)

\* if (update.modified) ... if (elements[id]) Object.assign(elements[id], changes)
ModifyElements(elements, modified) ==
  IF IsSome(modified) THEN ModifyElementsFrom(elements, Val(modified), 1)
  ELSE elements

RECURSIVE RemoveElementsFrom(_, _, _)
RemoveElementsFrom(elements, removed, i) ==
  IF i > Len(removed) THEN elements
  ELSE RemoveElementsFrom(MDel(elements, removed[i]), removed, i + 1)

\* if (update.removed) for (const id of update.removed) delete elements[id]
RemoveElements(elements, removed) ==
  IF IsSome(removed) THEN RemoveElementsFrom(elements, Val(removed), 1)
  ELSE elements

\* if (update.focus !== undefined) state.focus = update.focus || undefined
\* (null and the empty string are falsy)
PatchPointer(old, new) ==
  IF new = None THEN old
  ELSE IF Val(new) = Null \/ Val(new) = "" THEN None
  ELSE new

\* A faulty patch application: the result keeps the timestamp of its base
CacheApplyPatch_KeepsTimestamp(baseState, update) ==
  LET copy == JSONClone(baseState)
  IN [copy EXCEPT
        !.version = update.version,
        !.elements = RemoveElements(
                       ModifyElements(AddElements(copy.elements, update.added),
                                      update.modified),
                       update.removed),
        !.focus = PatchPointer(copy.focus, update.focus),
        !.hover = PatchPointer(copy.hover, update.hover)]

\* The body of UIStateCache.applyUpdate between the lookup and addState
CacheApplyPatch(baseState, update) ==
  LET copy == JSONClone(baseState)
  IN [copy EXCEPT
        !.timestamp = update.timestamp,
        !.version = update.version,
        !.elements = RemoveElements(
                       ModifyElements(AddElements(copy.elements, update.added),
                                      update.modified),
                       update.removed),
        !.focus = PatchPointer(copy.focus, update.focus),
        !.hover = PatchPointer(copy.hover, update.hover)]

(***************************************************************************)
(* UIStateCache                                                            *)
(***************************************************************************)
\* constructor(capacity)
NewUIStateCache(capacity) ==
  [stateCache |-> NewLRU(capacity), versionToTimestamp |-> <<>>]

\* getStateKeyFromParts: `${timestamp}-${version}`
getStateKeyFromParts(timestamp, version) ==
  ToString(timestamp) \o "-" \o version

\* getStateKey(state)
getStateKey(state) == getStateKeyFromParts(state.timestamp, state.version)

\* addState(state)
SCAddState(c, state) ==
  [stateCache |-> LRUSet(c.stateCache, getStateKey(state), state),
   versionToTimestamp |-> MPut(c.versionToTimestamp, state.version, state.timestamp)]

\* getStateByVersion(version): [c, result]
SCGetStateByVersion(c, version) ==
  LET timestamp == MLookup(c.versionToTimestamp, version)
  IN IF timestamp = None
     THEN [c |-> c, result |-> None]
     ELSE LET g == LRUGet(c.stateCache, getStateKeyFromParts(Val(timestamp), version))
          IN [c |-> [c EXCEPT !.stateCache = g.c], result |-> g.result]

RECURSIVE MostRecentFrom(_, _, _, _)
\* The loop of getMostRecentState over versionToTimestamp.entries()
MostRecentFrom(index, i, mostRecentTimestamp, mostRecentVersion) ==
  IF i > Len(index) THEN mostRecentVersion
  ELSE IF index[i][2] > mostRecentTimestamp
       THEN MostRecentFrom(index, i + 1, index[i][2], index[i][1])
       ELSE MostRecentFrom(index, i + 1, mostRecentTimestamp, mostRecentVersion)

\* getMostRecentState(): [c, result]
SCGetMostRecentState(c) ==
  LET mostRecentVersion == MostRecentFrom(c.versionToTimestamp, 1, 0, "")
  IN IF Truthy(mostRecentVersion)
     THEN SCGetStateByVersion(c, mostRecentVersion)
     ELSE [c |-> c, result |-> None]

\* applyUpdate(baseVersion, update): [c, result]
SCApplyUpdate(c, baseVersion, update) ==
  LET b == SCGetStateByVersion(c, baseVersion)
  IN IF b.result = None
     THEN [c |-> b.c, result |-> None]
     ELSE LET newState == CacheApplyPatch(Val(b.result), update)
          IN [c |-> SCAddState(b.c, newState), result |-> Some(newState)]

\* clear()
SCClear(c) ==
  [stateCache |-> LRUClear(c.stateCache), versionToTimestamp |-> <<>>]

\* size()
SCSize(c) == LRUSize(c.stateCache)

(***************************************************************************)
(* SpecCache: one UIStateCache driven by arbitrary calls                   *)
(***************************************************************************)
ElBtn ==
  Element("btn", "button", Some("Go"),
          Some(Bounds(Whole(0), Whole(0), Whole(10), Whole(10))), Some(TRUE))
ElLabel == Element("label", "label", Some("Name"), None, None)

CacheVersions == {"v1", "v2", "v3"}
CacheTimes == 1..MaxTime
CacheElements == {<<<<"btn", ElBtn>>>>}

\* The snapshots handed to addState
CacheStates ==
  {UIState(v, t, els, None) : v \in CacheVersions, t \in CacheTimes, els \in CacheElements}

\* The contents of the updates handed to applyUpdate
CacheUpdateBodies ==
  {[added |-> None, modified |-> None, removed |-> None, focus |-> None],
   [added |-> Some(<<<<"label", ElLabel>>>>), modified |-> Some(<<<<"btn", <<<<"text", Some("Submit")>>>>>>>>),
    removed |-> None, focus |-> Some("btn")],
   [added |-> None, modified |-> None, removed |-> Some(<<"btn">>),
    focus |-> Some(Null)]}

CacheUpdates ==
  {Update(bv, v, t, b.added, b.modified, b.removed, b.focus, None) :
     bv \in {"v1", "v2"}, v \in {"v2", "v3"}, t \in CacheTimes,
     b \in CacheUpdateBodies}

SCCall(op, arg, update, pre, result) ==
  [op |-> op, arg |-> arg, update |-> update, pre |-> pre, result |-> result]

\* The variables of the other specifications, which SpecCache leaves alone
SCOthers == <<lru, lruLast, srv, srvLast, df, cx, cxLast, ch, cl, pa, ec,
              fl, nt, wv, hs>>
SCOthersInit ==
  /\ lru = None
  /\ lruLast = None
  /\ srv = None
  /\ srvLast = None
  /\ df = None
  /\ cx = None
  /\ cxLast = None
  /\ ch = None
  /\ cl = None
  /\ pa = None
  /\ ec = None
  /\ fl = None
  /\ nt = None
  /\ wv = None
  /\ hs = None

SCInit ==
  /\ \E n \in 1..MaxCap : sc = NewUIStateCache(n)
  /\ scLast = SCCall("new", None, None, sc, None)
  /\ SCOthersInit

SCAddStateStep ==
  \E state \in CacheStates :
    /\ sc.stateCache.accessCounter < MaxCacheAccess
    /\ sc' = SCAddState(sc, state)
    /\ scLast' = SCCall("addState", Some(state), None, sc, None)
    /\ UNCHANGED SCOthers

SCGetStateByVersionStep ==
  \E version \in CacheVersions :
    /\ sc.stateCache.accessCounter < MaxCacheAccess
    /\ sc' = SCGetStateByVersion(sc, version).c
    /\ scLast' = SCCall("getStateByVersion", Some(version), None, sc,
                        SCGetStateByVersion(sc, version).result)
    /\ UNCHANGED SCOthers

SCGetMostRecentStateStep ==
  /\ sc.stateCache.accessCounter < MaxCacheAccess
  /\ sc' = SCGetMostRecentState(sc).c
  /\ scLast' = SCCall("getMostRecentState", None, None, sc,
                      SCGetMostRecentState(sc).result)
  /\ UNCHANGED SCOthers

SCApplyUpdateStep ==
  \E baseVersion \in CacheVersions, update \in CacheUpdates :
    /\ SCApplyUpdate(sc, baseVersion, update).c.stateCache.accessCounter
         <= MaxCacheAccess
    /\ sc' = SCApplyUpdate(sc, baseVersion, update).c
    /\ scLast' = SCCall("applyUpdate", Some(baseVersion), Some(update), sc,
                        SCApplyUpdate(sc, baseVersion, update).result)
    /\ UNCHANGED SCOthers

SCClearStep ==
  /\ sc' = SCClear(sc)
  /\ scLast' = SCCall("clear", None, None, sc, None)
  /\ UNCHANGED SCOthers

SCNext ==
  \/ SCAddStateStep
  \/ SCGetStateByVersionStep
  \/ SCGetMostRecentStateStep
  \/ SCApplyUpdateStep
  \/ SCClearStep

SpecCache == SCInit /\ [][SCNext]_vars

(***************************************************************************)
(* Claims about UIStateCache (checked under SpecCache)                     *)
(***************************************************************************)
\* The snapshots held by the cache c, by position in its store
SCResident(c) == [i \in 1..Len(c.stateCache.cache) |-> c.stateCache.cache[i][2]]

\* Some snapshot of version v is resident in c
SCHasVersion(c, v) ==
  \E i \in 1..Len(SCResident(c)) : SCResident(c)[i].version = v

\* C7: getMostRecentState returns the resident snapshot with the largest
\* timestamp; in particular it returns a snapshot whenever one is resident.
C7_MostRecentIsLargestResident ==
  Len(SCResident(sc)) > 0 =>
    LET r == SCGetMostRecentState(sc).result
    IN /\ r # None
       /\ \E i \in 1..Len(SCResident(sc)) : SCResident(sc)[i] = Val(r)
       /\ \A i \in 1..Len(SCResident(sc)) :
            SCResident(sc)[i].timestamp <= Val(r).timestamp

\* C8: applyUpdate(baseVersion, patch) returns undefined whenever no snapshot
\* of baseVersion is resident, and then leaves the cache as it was: the same
\* keys, snapshots, version index, recency counts and access counter.
C8_ApplyUpdateNotFoundLeavesCache ==
  (scLast.op = "applyUpdate" /\ ~SCHasVersion(scLast.pre, Val(scLast.arg))) =>
    /\ scLast.result = None
    /\ sc = scLast.pre

\* C8's case: applyUpdate on a version that was added and has been evicted
C8_Witness ==
  /\ scLast.op = "applyUpdate"
  /\ ~SCHasVersion(scLast.pre, Val(scLast.arg))
  /\ MHas(scLast.pre.versionToTimestamp, Val(scLast.arg))
  /\ Len(SCResident(scLast.pre)) > 0
  /\ scLast.result = None

\* C9: applyUpdate fails (returns undefined) when the baseVersion it is
\* called with is not the baseVersion of the patch.
C9_ApplyUpdateChecksBaseVersion ==
  (scLast.op = "applyUpdate" /\ Val(scLast.arg) # Val(scLast.update).baseVersion) =>
    scLast.result = None

\* C10: when a snapshot of baseVersion is resident, applyUpdate returns a
\* snapshot with the version and the timestamp of the patch, and
\* getStateByVersion(patch.version) then returns that snapshot.
C10_ApplyUpdateStoresResult ==
  (scLast.op = "applyUpdate" /\ SCHasVersion(scLast.pre, Val(scLast.arg))) =>
    /\ scLast.result # None
    /\ Val(scLast.result).version = Val(scLast.update).version
    /\ Val(scLast.result).timestamp = Val(scLast.update).timestamp
    /\ SCGetStateByVersion(sc, Val(scLast.update).version).result = scLast.result

\* C10's case: a successful applyUpdate on a full cache, whose result has
\* another version and another timestamp than its base
C10_Witness ==
  /\ scLast.op = "applyUpdate"
  /\ scLast.result # None
  /\ Val(scLast.update).version # Val(scLast.arg)
  /\ Val(scLast.result).timestamp #
       Val(SCGetStateByVersion(scLast.pre, Val(scLast.arg)).result).timestamp
  /\ Len(SCResident(scLast.pre)) = scLast.pre.stateCache.capacity

(***************************************************************************)
(* BaseMCPServer and the cache-backed OpenAIMCPServer                      *)
(*                                                                         *)
(* A server is [maxHistoryStates, includeFullElementDetails, maxTokens,    *)
(* tokenUsageStats, currentState, stateHistory, stateCache, calls]: the    *)
(* first two are the optional settings of config.contextManagement,        *)
(* currentState is optional (null at first), calls counts the calls made   *)
(* (it bounds the model and is no field of the class). A call returns      *)
(* [s |-> the server afterwards, threw |-> whether it threw].              *)
(***************************************************************************)
DefaultCacheCapacity == 10

\* JavaScript truthiness of an optional number
TruthyNum(o) == IsSome(o) /\ Val(o) # 0

\* private maxTokens = 1000
DefaultMaxTokens == 1000

\* The part of MCPServerConfig the model reads: contextManagement
\* .maxHistoryStates and .includeFullElementDetails, and
\* modelProvider.options.maxTokens, each of them optional
ServerConfig(maxHistoryStates, maxTokens, includeFullElementDetails) ==
  [maxHistoryStates |-> maxHistoryStates,
   maxTokens |-> maxTokens,
   includeFullElementDetails |-> includeFullElementDetails]

\* The server after construction and initialize(config):
\* stateCache = new UIStateCache(maxHistoryStates || 10). The average of
\* tokenUsageStats is kept as the sum it stands for (average = total / count).
NewServer(config) ==
  [maxHistoryStates |-> config.maxHistoryStates,
   includeFullElementDetails |-> config.includeFullElementDetails,
   maxTokens |-> IF IsSome(config.maxTokens) THEN Val(config.maxTokens)
                 ELSE DefaultMaxTokens,
   tokenUsageStats |-> [total |-> 0, max |-> 0, count |-> 0],
   currentState |-> None,
   stateHistory |-> <<>>,
   stateCache |-> NewUIStateCache(IF TruthyNum(config.maxHistoryStates)
                                  THEN Val(config.maxHistoryStates)
                                  ELSE DefaultCacheCapacity),
   calls |-> 0]

\* A faulty addStateToHistory: the state just pushed is dropped
addStateToHistory_DropsNewest(s, state) ==
  LET pushed == Append(s.stateHistory, state)
      maxHistoryStates == IF IsSome(s.maxHistoryStates) THEN Val(s.maxHistoryStates)
                          ELSE DefaultCacheCapacity
  IN [s EXCEPT !.stateHistory =
        IF Len(pushed) > maxHistoryStates THEN s.stateHistory ELSE pushed]

\* BaseMCPServer.addStateToHistory
addStateToHistory(s, state) ==
  LET pushed == Append(s.stateHistory, state)
      maxHistoryStates == IF IsSome(s.maxHistoryStates) THEN Val(s.maxHistoryStates)
                          ELSE DefaultCacheCapacity
  IN [s EXCEPT !.stateHistory =
        IF Len(pushed) > maxHistoryStates THEN Tail(pushed) ELSE pushed]

\* BaseMCPServer.processInitialState
BaseProcessInitialState(s, state) ==
  LET t == [s EXCEPT !.currentState = Some(state)]
  IN IF TruthyNum(s.maxHistoryStates) THEN addStateToHistory(t, state) ELSE t

\* BaseMCPServer.applyUpdate(state, update)
ServerApplyUpdate(state, update) ==
  LET copy == JSONClone(state)
  IN [copy EXCEPT
        !.version = update.version,
        !.timestamp = update.timestamp,
        !.elements = RemoveElements(
                       ModifyElements(AddElements(copy.elements, update.added),
                                      update.modified),
                       update.removed),
        !.focus = PatchPointer(copy.focus, update.focus),
        !.hover = PatchPointer(copy.hover, update.hover)]

\* A faulty processStateUpdate: the base version is not compared
BaseProcessStateUpdate_NoVersionCheck(s, update) ==
  IF s.currentState = None
  THEN [s |-> s, threw |-> TRUE]
  ELSE LET newState == ServerApplyUpdate(Val(s.currentState), update)
           t == [s EXCEPT !.currentState = Some(newState)]
       IN [s |-> IF TruthyNum(s.maxHistoryStates)
                 THEN addStateToHistory(t, newState) ELSE t,
           threw |-> FALSE]

\* BaseMCPServer.processStateUpdate
BaseProcessStateUpdate(s, update) ==
  IF s.currentState = None
  THEN [s |-> s, threw |-> TRUE]
  ELSE IF update.baseVersion # Val(s.currentState).version
  THEN [s |-> s, threw |-> TRUE]
  ELSE LET newState == ServerApplyUpdate(Val(s.currentState), update)
           t == [s EXCEPT !.currentState = Some(newState)]
       IN [s |-> IF TruthyNum(s.maxHistoryStates)
                 THEN addStateToHistory(t, newState) ELSE t,
           threw |-> FALSE]

\* A faulty processInitialState: the state is not added to the cache
processInitialState_NotCached(s, state) == BaseProcessInitialState(s, state)

\* OpenAIMCPServer.processInitialState
processInitialState(s, state) ==
  LET t == BaseProcessInitialState(s, state)
  IN [t EXCEPT !.stateCache = SCAddState(t.stateCache, state)]

\* OpenAIMCPServer.processStateUpdate
processStateUpdate(s, update) ==
  LET b == BaseProcessStateUpdate(s, update)
  IN IF b.threw THEN b
     ELSE IF b.s.currentState # None
     THEN [s |-> [b.s EXCEPT !.stateCache =
                    SCApplyUpdate(b.s.stateCache, update.baseVersion, update).c],
           threw |-> FALSE]
     ELSE b

(***************************************************************************)
(* SpecServer: one OpenAIMCPServer fed snapshots and patches               *)
(***************************************************************************)
ServerStates == {st \in CacheStates : st.version = "v1"}
ServerUpdates == CacheUpdates

SrvCall(op, arg, pre, threw) == [op |-> op, arg |-> arg, pre |-> pre, threw |-> threw]

\* The variables of the other specifications, which SpecServer leaves alone
SrvOthers == <<lru, lruLast, sc, scLast, df, cx, cxLast, ch, cl, pa, ec,
               fl, nt, wv, hs>>
SrvOthersInit ==
  /\ lru = None
  /\ lruLast = None
  /\ sc = None
  /\ scLast = None
  /\ df = None
  /\ cx = None
  /\ cxLast = None
  /\ ch = None
  /\ cl = None
  /\ pa = None
  /\ ec = None
  /\ fl = None
  /\ nt = None
  /\ wv = None
  /\ hs = None

SrvInit ==
  /\ \E m \in {None} \cup {Some(n) : n \in 0..MaxHistory} : srv = NewServer(ServerConfig(m, None, None))
  /\ srvLast = SrvCall("new", None, srv, FALSE)
  /\ SrvOthersInit

SrvProcessInitialStateStep ==
  \E state \in ServerStates :
    /\ srv.calls < MaxServerCalls
    /\ srv' = [processInitialState(srv, state) EXCEPT !.calls = srv.calls + 1]
    /\ srvLast' = SrvCall("processInitialState", Some(state), srv, FALSE)
    /\ UNCHANGED SrvOthers

SrvProcessStateUpdateStep ==
  \E update \in ServerUpdates :
    /\ srv.calls < MaxServerCalls
    /\ srv' = [processStateUpdate(srv, update).s EXCEPT !.calls = srv.calls + 1]
    /\ srvLast' = SrvCall("processStateUpdate", Some(update), srv,
                          processStateUpdate(srv, update).threw)
    /\ UNCHANGED SrvOthers

SrvNext ==
  \/ SrvProcessInitialStateStep
  \/ SrvProcessStateUpdateStep

SpecServer == SrvInit /\ [][SrvNext]_vars

(***************************************************************************)
(* Claims about the servers (checked under SpecServer)                     *)
(***************************************************************************)
\* The current state, the history and the snapshot cache of a server
SrvData(s) == <<s.currentState, s.stateHistory, s.stateCache>>

\* The update of the last call does not apply to the state that was current
SrvMismatch ==
  \/ srvLast.pre.currentState = None
  \/ Val(srvLast.arg).baseVersion # Val(srvLast.pre.currentState).version

\* C2: processStateUpdate throws whenever no state was seeded or the patch's
\* baseVersion is not the version of the current state, and then leaves the
\* current state, the history and the snapshot cache as they were; when the
\* versions are equal it does not throw and the patched state is current.
C2_UpdateNeedsCurrentVersion ==
  srvLast.op = "processStateUpdate" =>
    IF SrvMismatch
    THEN srvLast.threw /\ SrvData(srv) = SrvData(srvLast.pre)
    ELSE /\ ~srvLast.threw
         /\ srv.currentState =
              Some(ServerApplyUpdate(Val(srvLast.pre.currentState), Val(srvLast.arg)))

\* C2's case: a patch whose baseVersion was current once and has been
\* superseded by an earlier update is refused
C2_Witness ==
  /\ srvLast.op = "processStateUpdate"
  /\ srvLast.threw
  /\ srvLast.pre.currentState # None
  /\ SCHasVersion(srvLast.pre.stateCache, Val(srvLast.arg).baseVersion)
  /\ Val(srvLast.pre.currentState).elements # <<>>

(***************************************************************************)
(* Strings, numbers and JSON.stringify                                     *)
(*                                                                         *)
(* A JSON text is the sequence of its UTF-16 code units. Chars gives the   *)
(* code units of each string the model uses. The numbers of bounds are     *)
(* counted in halves (21 is 10.5), so that rounding is not the identity;   *)
(* all other numbers are integers.                                         *)
(***************************************************************************)
Chars(s) ==
  CASE s = "" -> <<>>
    [] s = "btn" -> <<98, 116, 110>>
    [] s = "label" -> <<108, 97, 98, 101, 108>>
    [] s = "button" -> <<98, 117, 116, 116, 111, 110>>
    [] s = "link" -> <<108, 105, 110, 107>>
    [] s = "script" -> <<115, 99, 114, 105, 112, 116>>
    [] s = "div" -> <<100, 105, 118>>
    [] s = "input" -> <<105, 110, 112, 117, 116>>
    [] s = "Go" -> <<71, 111>>
    [] s = "Submit" -> <<83, 117, 98, 109, 105, 116>>
    [] s = "Name" -> <<78, 97, 109, 101>>
    [] s = "Aa" -> <<65, 97>>
    [] s = "BB" -> <<66, 66>>
    [] s = "a b" -> <<97, 32, 98>>
    [] s = " " -> <<32>>
    [] s = "let a = 1" -> <<108, 101, 116, 32, 97, 32, 61, 32, 49>>
    [] s = "js" -> <<106, 115>>
    [] s = "k" -> <<107>>
    [] s = "j" -> <<106>>
    [] s = "1" -> <<49>>
    [] s = "2" -> <<50>>
    [] s = "color" -> <<99, 111, 108, 111, 114>>
    [] s = "red" -> <<114, 101, 100>>
    [] s = "web" -> <<119, 101, 98>>
    [] s = "app" -> <<97, 112, 112>>
    [] s = "t" -> <<116>>
    [] s = "v1" -> <<118, 49>>
    [] s = "v2" -> <<118, 50>>
    [] s = "v3" -> <<118, 51>>
    [] s = "id" -> <<105, 100>>
    [] s = "type" -> <<116, 121, 112, 101>>
    [] s = "text" -> <<116, 101, 120, 116>>
    [] s = "attributes" -> <<97, 116, 116, 114, 105, 98, 117, 116, 101, 115>>
    [] s = "bounds" -> <<98, 111, 117, 110, 100, 115>>
    [] s = "x" -> <<120>>
    [] s = "y" -> <<121>>
    [] s = "width" -> <<119, 105, 100, 116, 104>>
    [] s = "height" -> <<104, 101, 105, 103, 104, 116>>
    [] s = "interactable" -> <<105, 110, 116, 101, 114, 97, 99, 116, 97, 98, 108, 101>>
    [] s = "visible" -> <<118, 105, 115, 105, 98, 108, 101>>
    [] s = "children" -> <<99, 104, 105, 108, 100, 114, 101, 110>>
    [] s = "parent" -> <<112, 97, 114, 101, 110, 116>>
    [] s = "zIndex" -> <<122, 73, 110, 100, 101, 120>>
    [] s = "styles" -> <<115, 116, 121, 108, 101, 115>>
    [] s = "platform" -> <<112, 108, 97, 116, 102, 111, 114, 109>>
    [] s = "application" -> <<97, 112, 112, 108, 105, 99, 97, 116, 105, 111, 110>>
    [] s = "title" -> <<116, 105, 116, 108, 101>>
    [] s = "url" -> <<117, 114, 108>>
    [] s = "viewport" -> <<118, 105, 101, 119, 112, 111, 114, 116>>
    [] s = "elements" -> <<101, 108, 101, 109, 101, 110, 116, 115>>
    [] s = "focus" -> <<102, 111, 99, 117, 115>>
    [] s = "hover" -> <<104, 111, 118, 101, 114>>
    [] s = "true" -> <<116, 114, 117, 101>>
    [] s = "false" -> <<102, 97, 108, 115, 101>>
    [] s = "null" -> <<110, 117, 108, 108>>
    [] s = ".5" -> <<46, 53>>

RECURSIVE Digits(_)
\* The decimal digits of a natural number
Digits(n) == IF n < 10 THEN <<48 + n>> ELSE Digits(n \div 10) \o <<48 + (n % 10)>>

\* JSON.stringify of an integer
JNumber(n) == IF n < 0 THEN <<45>> \o Digits(-n) ELSE Digits(n)

\* JSON.stringify of a number counted in halves
JHalves(h) ==
  LET a == IF h < 0 THEN -h ELSE h
  IN (IF h < 0 THEN <<45>> ELSE <<>>) \o Digits(a \div 2)
       \o (IF a % 2 = 1 THEN Chars(".5") ELSE <<>>)

\* JSON.stringify of a string (the strings of the model need no escapes)
JString(s) == <<34>> \o Chars(s) \o <<34>>

\* JSON.stringify of a boolean
JBoolean(b) == IF b THEN Chars("true") ELSE Chars("false")

RECURSIVE JJoinFrom(_, _)
JJoinFrom(parts, i) ==
  IF i > Len(parts) THEN <<>>
  ELSE (IF i > 1 THEN <<44>> ELSE <<>>) \o parts[i] \o JJoinFrom(parts, i + 1)

\* The texts of parts, separated by commas
JJoin(parts) == JJoinFrom(parts, 1)

\* "key":value
JMember(key, value) == JString(key) \o <<58>> \o value

\* {members}, members being the texts of the members
JObject(members) == <<123>> \o JJoin(members) \o <<125>>

\* [items], items being the texts of the items
JArray(items) == <<91>> \o JJoin(items) \o <<93>>

\* JSON.stringify of a dictionary of strings (attributes, styles)
JStringDict(m) ==
  JObject([i \in 1..Len(m) |-> JMember(m[i][1], JString(m[i][2]))])

\* JSON.stringify of bounds
JBounds(b) ==
  JObject(<<JMember("x", JHalves(b.x)), JMember("y", JHalves(b.y)),
            JMember("width", JHalves(b.width)), JMember("height", JHalves(b.height))>>)

(***************************************************************************)
(* hashElement and hashString                                              *)
(*                                                                         *)
(* The 32-bit hash is kept as <<high 16 bits, low 16 bits>>. The signed    *)
(* reading of the 32 bits and toString(36) are one-to-one, and the code    *)
(* only compares hashes for equality.                                      *)
(***************************************************************************)
\* hash = ((hash << 5) - hash) + char; hash = hash & hash
HashStep(hash, char) ==
  LET lo == hash[2] * 31 + char
      hi == hash[1] * 31 + (lo \div 65536)
  IN <<hi % 65536, lo % 65536>>

RECURSIVE HashLoop(_, _, _, _)
\* The loop of hashString over the characters first..last of str, entered
\* with hash: the loop over the first half of the range, then, from the hash
\* h it leaves, the loop over the second half
HashLoop(str, hash, first, last) ==
  IF first > last THEN hash
  ELSE IF first = last THEN HashStep(hash, str[first])
  ELSE Only({HashLoop(str, h, ((first + last) \div 2) + 1, last) :
             h \in {HashLoop(str, hash, first, (first + last) \div 2)}})

\* hashString(str)
hashString(str) == Only({HashLoop(s, <<0, 0>>, 1, Len(s)) : s \in {str}})

\* The text that hashElement hashes: JSON.stringify(hashObj)
HashObjJSON(element) ==
  JObject(
    <<JMember("type", JString(element.type)),
      JMember("text", JString(IF IsSome(element.text) THEN Val(element.text) ELSE ""))>>
    \o (IF IsSome(element.bounds)
        THEN <<JMember("bounds", JBounds(Val(element.bounds)))>> ELSE <<>>)
    \o <<JMember("interactable",
                 JBoolean(IsSome(element.interactable) /\ Val(element.interactable))),
         JMember("visible", JBoolean(element.visible # Some(FALSE))),
         JMember("attributes",
                 JStringDict(IF IsSome(element.attributes)
                             THEN Val(element.attributes) ELSE <<>>))>>)

\* hashElement(element)
hashElement(element) == hashString(HashObjJSON(element))

(***************************************************************************)
(* computeDiff                                                             *)
(***************************************************************************)
\* boundsEqual(a, b)
boundsEqual(a, b) ==
  IF a = None \/ b = None THEN a = b
  ELSE /\ Val(a).x = Val(b).x
       /\ Val(a).y = Val(b).y
       /\ Val(a).width = Val(b).width
       /\ Val(a).height = Val(b).height

\* attributesEqual(a, b) and stylesEqual(a, b): the same code twice
attributesEqual(a, b) ==
  IF a = None \/ b = None THEN a = b
  ELSE /\ Len(Val(a)) = Len(Val(b))
       /\ \A i \in 1..Len(Val(a)) :
            MLookup(Val(b), Val(a)[i][1]) = Some(Val(a)[i][2])

stylesEqual(a, b) == attributesEqual(a, b)

\* arraysEqual(a, b)
arraysEqual(a, b) ==
  IF a = None \/ b = None THEN a = b
  ELSE /\ Len(Val(a)) = Len(Val(b))
       /\ \A i \in 1..Len(Val(a)) : Val(a)[i] = Val(b)[i]

\* A faulty comparison: the text of the new element is always recorded
computeElementChanges_AlwaysText(oldElement, newElement) ==
  <<<<"text", newElement.text>>>>
  \o (IF ~attributesEqual(oldElement.attributes, newElement.attributes)
      THEN <<<<"attributes", newElement.attributes>>>> ELSE <<>>)

\* computeElementChanges(oldElement, newElement): a partial element
computeElementChanges(oldElement, newElement) ==
  (IF oldElement.text # newElement.text
   THEN <<<<"text", newElement.text>>>> ELSE <<>>)
  \o (IF ~boundsEqual(oldElement.bounds, newElement.bounds)
      THEN <<<<"bounds", newElement.bounds>>>> ELSE <<>>)
  \o (IF oldElement.interactable # newElement.interactable
      THEN <<<<"interactable", newElement.interactable>>>> ELSE <<>>)
  \o (IF oldElement.visible # newElement.visible
      THEN <<<<"visible", newElement.visible>>>> ELSE <<>>)
  \o (IF ~attributesEqual(oldElement.attributes, newElement.attributes)
      THEN <<<<"attributes", newElement.attributes>>>> ELSE <<>>)
  \o (IF ~stylesEqual(oldElement.styles, newElement.styles)
      THEN <<<<"styles", newElement.styles>>>> ELSE <<>>)
  \o (IF ~arraysEqual(oldElement.children, newElement.children)
      THEN <<<<"children", newElement.children>>>> ELSE <<>>)

RECURSIVE DiffAddedFrom(_, _, _)
\* The entries of added, in the order of newState.elements
DiffAddedFrom(oldElements, newElements, i) ==
  IF i > Len(newElements) THEN <<>>
  ELSE (IF ~MHas(oldElements, newElements[i][1]) THEN <<newElements[i]>> ELSE <<>>)
       \o DiffAddedFrom(oldElements, newElements, i + 1)

\* The entry of modified for the element newElements[i], if any
DiffModifiedEntry(oldElements, newElements, i) ==
  LET id == newElements[i][1]
  IN IF MHas(oldElements, id)
        /\ hashElement(MGet(oldElements, id)) # hashElement(newElements[i][2])
        /\ Len(computeElementChanges(MGet(oldElements, id), newElements[i][2])) > 0
     THEN <<<<id, computeElementChanges(MGet(oldElements, id), newElements[i][2])>>>>
     ELSE <<>>

RECURSIVE DiffModifiedFrom(_, _, _)
\* The entries of modified, in the order of newState.elements
DiffModifiedFrom(oldElements, newElements, i) ==
  IF i > Len(newElements) THEN <<>>
  ELSE DiffModifiedEntry(oldElements, newElements, i)
       \o DiffModifiedFrom(oldElements, newElements, i + 1)

\* A faulty loop: every id of oldState.elements is pushed onto removed
DiffRemovedFrom_Everything(oldElements, newElements, i) ==
  [j \in 1..Len(oldElements) |-> oldElements[j][1]]

RECURSIVE DiffRemovedFrom(_, _, _)
\* The ids of removed, in the order of oldState.elements
DiffRemovedFrom(oldElements, newElements, i) ==
  IF i > Len(oldElements) THEN <<>>
  ELSE (IF ~MHas(newElements, oldElements[i][1]) THEN <<oldElements[i][1]>> ELSE <<>>)
       \o DiffRemovedFrom(oldElements, newElements, i + 1)

\* A property of the update that is set only when it is not empty
NonEmpty(s) == IF Len(s) > 0 THEN Some(s) ELSE None

\* A faulty comparison: focus and hover are written into every update
DiffPointer_Always(old, new) ==
  Some(IF new = None \/ Val(new) = "" THEN Null ELSE Val(new))

\* if (old.focus !== new.focus) update.focus = new.focus || null
DiffPointer(old, new) ==
  IF old # new
  THEN Some(IF new = None \/ Val(new) = "" THEN Null ELSE Val(new))
  ELSE None

\* computeDiff(oldState, newState)
computeDiff(oldState, newState) ==
  [timestamp |-> newState.timestamp,
   baseVersion |-> oldState.version,
   version |-> newState.version,
   added |-> NonEmpty(DiffAddedFrom(oldState.elements, newState.elements, 1)),
   modified |-> NonEmpty(DiffModifiedFrom(oldState.elements, newState.elements, 1)),
   removed |-> NonEmpty(DiffRemovedFrom(oldState.elements, newState.elements, 1)),
   focus |-> DiffPointer(oldState.focus, newState.focus),
   hover |-> DiffPointer(oldState.hover, newState.hover)]

(***************************************************************************)
(* SpecDiff: computeDiff(A, B), then the patch applied to A by             *)
(* UIStateCache.applyUpdate and by BaseMCPServer.applyUpdate               *)
(***************************************************************************)
\* The variants of the button element
DiffButtons ==
  {ElBtn,
   [ElBtn EXCEPT !.text = Some("Submit")],
   [ElBtn EXCEPT !.text = Some("")],
   [ElBtn EXCEPT !.text = None],
   [ElBtn EXCEPT !.text = Some("Aa")],
   [ElBtn EXCEPT !.text = Some("BB")],
   [ElBtn EXCEPT !.type = "link"],
   [ElBtn EXCEPT !.bounds = Some(Bounds(Whole(1), AndAHalf(2), Whole(10), Whole(10)))],
   [ElBtn EXCEPT !.interactable = Some(FALSE)],
   [ElBtn EXCEPT !.visible = Some(FALSE)],
   [ElBtn EXCEPT !.attributes = Some(<<<<"k", "1">>>>)],
   [ElBtn EXCEPT !.attributes = Some(<<<<"k", "2">>>>)],
   [ElBtn EXCEPT !.styles = Some(<<<<"color", "red">>>>)],
   [ElBtn EXCEPT !.children = Some(<<"label">>)]}

\* An element whose id is the empty string
ElEmptyId == Element("", "label", Some("Name"), None, None)

\* The element dictionaries of the snapshots
DiffElementDicts ==
  {<<>>}
  \cup {<<<<"btn", b>>>> : b \in DiffButtons}
  \cup {<<<<"btn", b>>, <<"label", ElLabel>>>> : b \in DiffButtons}
  \cup {<<<<"label", ElLabel>>, <<"btn", ElBtn>>>>, <<<<"label", ElLabel>>>>}
  \cup {<<<<"", ElEmptyId>>>>, <<<<"btn", ElBtn>>, <<"", ElEmptyId>>>>}

\* Every id a snapshot refers to (focus, hover, children, parent) is the id
\* of one of its elements
NoDanglingRefs(state) ==
  /\ IsSome(state.focus) => MHas(state.elements, Val(state.focus))
  /\ IsSome(state.hover) => MHas(state.elements, Val(state.hover))
  /\ \A i \in 1..Len(state.elements) :
       LET element == state.elements[i][2]
       IN /\ IsSome(element.parent) => MHas(state.elements, Val(element.parent))
          /\ IsSome(element.children) =>
               \A j \in 1..Len(Val(element.children)) :
                 MHas(state.elements, Val(element.children)[j])

\* The snapshots with a given version and timestamp
DiffStates(version, timestamp) ==
  {st \in {[UIState(version, timestamp, elements, focus) EXCEPT !.hover = hover] :
             elements \in DiffElementDicts, focus \in {None, Some("btn"), Some("")},
             hover \in {None, Some("btn")}} :
     NoDanglingRefs(st)}

\* The variables of the other specifications, which SpecDiff leaves alone
DiffOthers == <<lru, lruLast, sc, scLast, srv, srvLast, cx, cxLast, ch, cl, pa, ec,
                fl, nt, wv, hs>>
DiffOthersInit ==
  /\ lru = None
  /\ lruLast = None
  /\ sc = None
  /\ scLast = None
  /\ srv = None
  /\ srvLast = None
  /\ cx = None
  /\ cxLast = None
  /\ ch = None
  /\ cl = None
  /\ pa = None
  /\ ec = None
  /\ fl = None
  /\ nt = None
  /\ wv = None
  /\ hs = None

\* The new snapshot is a later one, or the old snapshot itself
DiffInit ==
  /\ \E oldState \in DiffStates("v1", 1) :
     \E newState \in DiffStates("v2", 2) \cup {oldState} :
       df = [oldState |-> oldState, newState |-> newState, update |-> None,
             viaCache |-> None, viaServer |-> None]
  /\ DiffOthersInit

\* update = computeDiff(oldState, newState)
DiffComputeStep ==
  /\ df.update = None
  /\ df' = [df EXCEPT !.update = Some(computeDiff(df.oldState, df.newState))]
  /\ UNCHANGED DiffOthers

\* cache = new UIStateCache(10); cache.addState(oldState);
\* viaCache = cache.applyUpdate(oldState.version, update)
DiffApplyInCacheStep ==
  /\ df.update # None
  /\ df.viaCache = None
  /\ df' = [df EXCEPT !.viaCache =
              SCApplyUpdate(SCAddState(NewUIStateCache(DefaultCacheCapacity), df.oldState),
                            df.oldState.version, Val(df.update)).result]
  /\ UNCHANGED DiffOthers

\* viaServer = BaseMCPServer.applyUpdate(oldState, update)
DiffApplyInServerStep ==
  /\ df.update # None
  /\ df.viaServer = None
  /\ df' = [df EXCEPT !.viaServer = Some(ServerApplyUpdate(df.oldState, Val(df.update)))]
  /\ UNCHANGED DiffOthers

DiffNext ==
  \/ DiffComputeStep
  \/ DiffApplyInCacheStep
  \/ DiffApplyInServerStep

SpecDiff == DiffInit /\ [][DiffNext]_vars

(***************************************************************************)
(* Structural equality of snapshots: equal as JSON values, the order of    *)
(* the keys of an object set aside                                         *)
(***************************************************************************)
\* A dictionary as a function of its keys
DictAsFunction(m) == [k \in MKeySet(m) |-> MGet(m, k)]

OptionalDictAsFunction(o) == IF IsSome(o) THEN Some(DictAsFunction(Val(o))) ELSE None

ElementUnordered(element) ==
  [element EXCEPT !.attributes = OptionalDictAsFunction(element.attributes),
                  !.styles = OptionalDictAsFunction(element.styles)]

StateUnordered(state) ==
  [state EXCEPT !.elements =
     [id \in MKeySet(state.elements) |-> ElementUnordered(MGet(state.elements, id))]]

StructurallyEqual(a, b) == StateUnordered(a) = StateUnordered(b)

\* C1: for snapshots A and B without dangling references, the patch
\* computeDiff(A, B) applied to A, by UIStateCache.applyUpdate on a cache
\* holding A or by BaseMCPServer.applyUpdate, yields a snapshot structurally
\* equal to B.
C1_RoundTrip ==
  /\ IsSome(df.viaCache) => StructurallyEqual(Val(df.viaCache), df.newState)
  /\ IsSome(df.viaServer) => StructurallyEqual(Val(df.viaServer), df.newState)

(***************************************************************************)
(* Contexts for the model: simplifyState, compressState, filterElements    *)
(* and the token estimates                                                 *)
(*                                                                         *)
(* A simplified state is [platform, application, title, url, viewport,     *)
(* elements, focus, hover]; its elements are element records whose left    *)
(* out properties are None. JSON.stringify writes the defined properties   *)
(* only; the order in which it writes them changes neither the length of   *)
(* the text nor its words.                                                 *)
(***************************************************************************)
\* JavaScript truthiness of an optional string and of an optional boolean
TruthyString(o) == IsSome(o) /\ Val(o) # "" /\ Val(o) # Null
TruthyBoolean(o) == IsSome(o) /\ Val(o)

\* JSON.stringify of an array of strings
JStringArray(a) == JArray([i \in 1..Len(a) |-> JString(a[i])])

\* JSON.stringify of an element
JElement(e) ==
  JObject(
    <<JMember("id", JString(e.id)), JMember("type", JString(e.type))>>
    \o (IF IsSome(e.text) THEN <<JMember("text", JString(Val(e.text)))>> ELSE <<>>)
    \o (IF IsSome(e.attributes)
        THEN <<JMember("attributes", JStringDict(Val(e.attributes)))>> ELSE <<>>)
    \o (IF IsSome(e.bounds) THEN <<JMember("bounds", JBounds(Val(e.bounds)))>> ELSE <<>>)
    \o (IF IsSome(e.interactable)
        THEN <<JMember("interactable", JBoolean(Val(e.interactable)))>> ELSE <<>>)
    \o (IF IsSome(e.visible)
        THEN <<JMember("visible", JBoolean(Val(e.visible)))>> ELSE <<>>)
    \o (IF IsSome(e.children)
        THEN <<JMember("children", JStringArray(Val(e.children)))>> ELSE <<>>)
    \o (IF IsSome(e.parent) THEN <<JMember("parent", JString(Val(e.parent)))>> ELSE <<>>)
    \o (IF IsSome(e.zIndex) THEN <<JMember("zIndex", JNumber(Val(e.zIndex)))>> ELSE <<>>)
    \o (IF IsSome(e.styles)
        THEN <<JMember("styles", JStringDict(Val(e.styles)))>> ELSE <<>>))

\* JSON.stringify of a dictionary of elements
JElements(elements) ==
  JObject([i \in 1..Len(elements) |-> JMember(elements[i][1], JElement(elements[i][2]))])

\* JSON.stringify of a simplified state
JSimplifiedState(state) ==
  JObject(
    <<JMember("platform", JString(state.platform)),
      JMember("application", JString(state.application)),
      JMember("title", JString(state.title))>>
    \o (IF IsSome(state.url) THEN <<JMember("url", JString(Val(state.url)))>> ELSE <<>>)
    \o <<JMember("viewport",
                 JObject(<<JMember("width", JNumber(state.viewport.width)),
                           JMember("height", JNumber(state.viewport.height))>>)),
         JMember("elements", JElements(state.elements))>>
    \o (IF IsSome(state.focus)
        THEN <<JMember("focus", JString(Val(state.focus)))>> ELSE <<>>)
    \o (IF IsSome(state.hover)
        THEN <<JMember("hover", JString(Val(state.hover)))>> ELSE <<>>))

\* Math.ceil(n / 4) for a natural number n
CeilQuarter(n) == (n + 3) \div 4

\* json.split(/\s+/).length: one more than the runs of white space
WordCount(json) ==
  1 + Cardinality({i \in 1..Len(json) : json[i] = 32 /\ (i = 1 \/ json[i - 1] # 32)})

\* BaseMCPServer.estimateTokenCount(value), value being a simplified state
BaseEstimateTokenCount(state) == CeilQuarter(Len(JSimplifiedState(state)))

\* OpenAIMCPServer.estimateTokenCount(value), value being a simplified state:
\* Math.ceil(charCount / 4 + wordCount * 0.75)
estimateTokenCount(state) ==
  Only({CeilQuarter(Len(json) + 3 * WordCount(json)) :
        json \in {JSimplifiedState(state)}})

\* The essential details of an element
EssentialDetails(element) ==
  [id |-> element.id, type |-> element.type, text |-> element.text,
   attributes |-> None, bounds |-> element.bounds,
   interactable |-> element.interactable, visible |-> None,
   children |-> element.children, parent |-> element.parent,
   zIndex |-> None, styles |-> None]

\* BaseMCPServer.simplifyState(state, includeFullElementDetails, includeInvisible)
simplifyState(state, includeFullElementDetails, includeInvisible) ==
  LET Shown(entry) == includeInvisible \/ entry[2].visible # Some(FALSE)
      shown == SelectSeq(state.elements, Shown)
  IN [platform |-> state.platform,
      application |-> state.application,
      title |-> state.title,
      url |-> state.url,
      viewport |-> state.viewport,
      elements |-> [i \in 1..Len(shown) |->
                      <<shown[i][1],
                        IF includeFullElementDetails THEN shown[i][2]
                        ELSE EssentialDetails(shown[i][2])>>],
      focus |-> IF TruthyString(state.focus) THEN state.focus ELSE None,
      hover |-> IF TruthyString(state.hover) THEN state.hover ELSE None]

\* Math.round of a number counted in halves
MathRound(h) == IF h % 2 = 0 THEN h ELSE h + 1

\* A faulty loop body: visible is removed whatever its value
CompressElement_DropsVisible(element) ==
  [element EXCEPT
     !.text = IF element.text = Some("") THEN None ELSE element.text,
     !.visible = None,
     !.interactable = IF element.interactable = Some(FALSE) THEN None
                      ELSE element.interactable]

\* The body of the loop of compressState
CompressElement(element) ==
  [element EXCEPT
     !.text = IF element.text = Some("") THEN None ELSE element.text,
     !.attributes = IF element.attributes = None \/ Len(Val(element.attributes)) = 0
                    THEN None ELSE element.attributes,
     !.styles = IF element.styles = None \/ Len(Val(element.styles)) = 0
                THEN None ELSE element.styles,
     !.children = IF element.children = None \/ Len(Val(element.children)) = 0
                  THEN None ELSE element.children,
     !.visible = IF element.visible = Some(TRUE) THEN None ELSE element.visible,
     !.interactable = IF element.interactable = Some(FALSE) THEN None
                      ELSE element.interactable,
     !.bounds = IF IsSome(element.bounds)
                THEN Some(Bounds(MathRound(Val(element.bounds).x),
                                 MathRound(Val(element.bounds).y),
                                 MathRound(Val(element.bounds).width),
                                 MathRound(Val(element.bounds).height)))
                ELSE None]

\* compressState(state)
compressState(state) ==
  LET compressedState == JSONClone(state)
  IN [compressedState EXCEPT
        !.elements = [i \in 1..Len(compressedState.elements) |->
                        <<compressedState.elements[i][1],
                          CompressElement(compressedState.elements[i][2])>>]]

\* text.trim().length > 0: some character of the text is not white space
HasVisibleText(text) == \E i \in 1..Len(Chars(text)) : Chars(text)[i] # 32

\* getElementDepth(element): the loop breaks after its first round
getElementDepth(element) == IF TruthyString(element.parent) THEN 1 ELSE 0

\* Math.max(a, b)
MathMax(a, b) == IF a >= b THEN a ELSE b

\* calculateElementScore(element, options)
calculateElementScore(element, options) ==
  (IF options.prioritizeInteractable /\ TruthyBoolean(element.interactable)
   THEN 100 ELSE 0)
  + (IF options.prioritizeVisible /\ element.visible # Some(FALSE) THEN 50 ELSE 0)
  + (IF TruthyString(element.text) /\ HasVisibleText(Val(element.text)) THEN 25 ELSE 0)
  + MathMax(0, 20 - getElementDepth(element) * 2)

\* The options of filterElements: maxElements is optional, excludeTypes and
\* includeTypes are optional sets of types
FilterOptions(maxElements, prioritizeInteractable, prioritizeVisible, excludeTypes, includeTypes) ==
  [maxElements |-> maxElements,
   prioritizeInteractable |-> prioritizeInteractable,
   prioritizeVisible |-> prioritizeVisible,
   excludeTypes |-> excludeTypes,
   includeTypes |-> includeTypes]

\* A sort that is not stable: entry goes ahead of the entries of its score
InsertByScore_AheadOfEquals(sorted, entry) ==
  LET Larger(other) == other.score > entry.score
      NotLarger(other) == other.score <= entry.score
  IN SelectSeq(sorted, Larger) \o <<entry>> \o SelectSeq(sorted, NotLarger)

\* One round of the sort: entry goes behind the entries of sorted whose
\* score is not smaller
InsertByScore(sorted, entry) ==
  LET NotSmaller(other) == other.score >= entry.score
      Smaller(other) == other.score < entry.score
  IN SelectSeq(sorted, NotSmaller) \o <<entry>> \o SelectSeq(sorted, Smaller)

RECURSIVE SortByScoreFrom(_, _, _)
SortByScoreFrom(elementArray, i, sorted) ==
  IF i > Len(elementArray) THEN sorted
  ELSE Only({SortByScoreFrom(elementArray, i + 1, next) :
             next \in {InsertByScore(sorted, elementArray[i])}})

\* elementArray.sort((a, b) => b.score - a.score): the sort is stable
SortByScore(elementArray) == SortByScoreFrom(elementArray, 1, <<>>)

\* elementArray of filterElements before it is sorted
ScoredAndFiltered(elements, options) ==
  LET scored == [i \in 1..Len(elements) |->
                   [id |-> elements[i][1],
                    element |-> elements[i][2],
                    score |-> calculateElementScore(elements[i][2], options)]]
      NotExcluded(entry) == entry.element.type \notin Val(options.excludeTypes)
      Included(entry) == entry.element.type \in Val(options.includeTypes)
      afterExclude == IF IsSome(options.excludeTypes) /\ Val(options.excludeTypes) # {}
                      THEN SelectSeq(scored, NotExcluded) ELSE scored
  IN IF IsSome(options.includeTypes) /\ Val(options.includeTypes) # {}
     THEN SelectSeq(afterExclude, Included) ELSE afterExclude

\* elementArray.slice(0, maxElements), when there are more than maxElements
LimitElements(sorted, options) ==
  IF TruthyNum(options.maxElements) /\ Len(sorted) > Val(options.maxElements)
  THEN SubSeq(sorted, 1, Val(options.maxElements)) ELSE sorted

\* filteredState.elements = {}; for (...) filteredState.elements[id] = element
RebuildElements(filteredState, elementArray) ==
  [filteredState EXCEPT
     !.elements = [i \in 1..Len(elementArray) |->
                     <<elementArray[i].id, elementArray[i].element>>]]

\* filterElements(state, options)
filterElements(state, options) ==
  Only({Only({RebuildElements(filteredState,
                              LimitElements(SortByScore(elementArray), options)) :
              elementArray \in {ScoredAndFiltered(filteredState.elements, options)}}) :
        filteredState \in {JSONClone(state)}})

(***************************************************************************)
(* prepareContextForModel of the OpenAI server with a state cache          *)
(***************************************************************************)
\* maxElements: 50
SimplifyMaxElements == 50

\* excludeTypes: ['script', 'style', 'meta', 'link', 'noscript']
SimplifyExcludeTypes == {"script", "style", "meta", "link", "noscript"}

\* ContextOptions: each of the three is optional
ContextOptions(maxTokens, includeInvisible, includeFullElementDetails) ==
  [maxTokens |-> maxTokens,
   includeInvisible |-> includeInvisible,
   includeFullElementDetails |-> includeFullElementDetails]

\* a ?? b
Coalesce(a, b) == IF IsSome(a) THEN Val(a) ELSE b

\* The context of a simplified state
BaseContext(s, simplifiedState) ==
  [uiState |-> simplifiedState,
   tokenCount |-> BaseEstimateTokenCount(simplifiedState),
   metadata |-> [timestamp |-> Val(s.currentState).timestamp,
                 platform |-> Val(s.currentState).platform,
                 application |-> Val(s.currentState).application,
                 title |-> Val(s.currentState).title,
                 url |-> Val(s.currentState).url]]

\* BaseMCPServer.prepareContextForModel(options), the server having a
\* current state
BasePrepareContextForModel(s, options) ==
  Only({BaseContext(s, simplifiedState) :
        simplifiedState \in
          {simplifyState(Val(s.currentState),
                         Coalesce(options.includeFullElementDetails,
                                  Coalesce(s.includeFullElementDetails, FALSE)),
                         Coalesce(options.includeInvisible, FALSE))}})

\* The place of an element in the order of sortedElementIds: interactable
\* elements first, among equals those with a text first
Importance(element) ==
  (IF TruthyBoolean(element.interactable) THEN 0 ELSE 2)
  + (IF TruthyString(element.text) THEN 0 ELSE 1)

\* Object.keys(elements).sort(...): the sort is stable
SortByImportance(elements) ==
  LET Rank0(entry) == Importance(entry[2]) = 0
      Rank1(entry) == Importance(entry[2]) = 1
      Rank2(entry) == Importance(entry[2]) = 2
      Rank3(entry) == Importance(entry[2]) = 3
  IN MKeys(SelectSeq(elements, Rank0) \o SelectSeq(elements, Rank1)
             \o SelectSeq(elements, Rank2) \o SelectSeq(elements, Rank3))

\* A faulty short form: the type of the element is written as its text
SimplifiedElement_TypeAsText(element) ==
  [id |-> element.id, type |-> element.type, text |-> Some(element.type),
   attributes |-> None, bounds |-> None, interactable |-> Some(TRUE),
   visible |-> None, children |-> None, parent |-> None, zIndex |-> None,
   styles |-> None]

\* { id, type, text, interactable: true }
SimplifiedElement(element) ==
  [id |-> element.id, type |-> element.type, text |-> element.text,
   attributes |-> None, bounds |-> None, interactable |-> Some(TRUE),
   visible |-> None, children |-> None, parent |-> None, zIndex |-> None,
   styles |-> None]

\* Math.ceil(JSON.stringify(element).length / 4)
ElementTokens(element) == CeilQuarter(Len(JElement(element)))

\* One round of the loop over sortedElementIds; kept is
\* [newElements, currentTokenCount]
KeepElement(kept, id, element, maxTokens) ==
  IF kept.currentTokenCount + ElementTokens(element) <= maxTokens
  THEN [newElements |-> MPut(kept.newElements, id, element),
        currentTokenCount |-> kept.currentTokenCount + ElementTokens(element)]
  ELSE IF TruthyBoolean(element.interactable)
          /\ kept.currentTokenCount + ElementTokens(SimplifiedElement(element))
               <= maxTokens
  THEN [newElements |-> MPut(kept.newElements, id, SimplifiedElement(element)),
        currentTokenCount |-> kept.currentTokenCount
                                + ElementTokens(SimplifiedElement(element))]
  ELSE kept

RECURSIVE KeepElementsFrom(_, _, _, _, _)
\* The loop over sortedElementIds, from its i-th round on
KeepElementsFrom(elements, sortedElementIds, i, kept, maxTokens) ==
  IF i > Len(sortedElementIds) THEN kept
  ELSE Only({KeepElementsFrom(elements, sortedElementIds, i + 1, next, maxTokens) :
             next \in {KeepElement(kept, sortedElementIds[i],
                                   MGet(elements, sortedElementIds[i]), maxTokens)}})

\* filterElements as simplifyContextForTokenLimit calls it
FilterForTokenLimit(uiState) ==
  filterElements(uiState,
                 FilterOptions(Some(SimplifyMaxElements), TRUE, TRUE,
                               Some(SimplifyExcludeTypes), None))

\* The context with the elements newElements and the estimate of its state
ContextWithElements(context, filteredState, newElements) ==
  Only({[context EXCEPT !.uiState = uiState,
                         !.tokenCount = estimateTokenCount(uiState)] :
        uiState \in {[filteredState EXCEPT !.elements = newElements]}})

\* The loop of simplifyContextForTokenLimit, entered with currentTokenCount:
\* the elements it keeps
KeepElements(filteredState, currentTokenCount, maxTokens) ==
  Only({KeepElementsFrom(filteredState.elements, sortedElementIds, 1,
                         [newElements |-> <<>>,
                          currentTokenCount |-> currentTokenCount],
                         maxTokens).newElements :
        sortedElementIds \in {SortByImportance(filteredState.elements)}})

\* A faulty simplifyContextForTokenLimit: the count of the loop starts at 0
\* and not at the estimate of the filtered state
simplifyContextForTokenLimit_CountsFromZero(context, maxTokens) ==
  Only({ContextWithElements(context, filteredState,
                            KeepElements(filteredState, 0, maxTokens)) :
        filteredState \in {FilterForTokenLimit(context.uiState)}})

\* OpenAIMCPServer.simplifyContextForTokenLimit(context, maxTokens)
simplifyContextForTokenLimit(context, maxTokens) ==
  Only({ContextWithElements(context, filteredState,
                            KeepElements(filteredState,
                                         estimateTokenCount(filteredState),
                                         maxTokens)) :
        filteredState \in {FilterForTokenLimit(context.uiState)}})

\* OpenAIMCPServer.updateTokenUsageStats(tokenCount)
updateTokenUsageStats(s, tokenCount) ==
  [s EXCEPT !.tokenUsageStats =
     [total |-> s.tokenUsageStats.total + tokenCount,
      max |-> IF tokenCount > s.tokenUsageStats.max THEN tokenCount
              ELSE s.tokenUsageStats.max,
      count |-> s.tokenUsageStats.count + 1]]

\* baseContext.uiState = compressedState;
\* baseContext.tokenCount = this.estimateTokenCount(compressedState)
Recount(baseContext, compressedState) ==
  [baseContext EXCEPT !.uiState = compressedState,
                      !.tokenCount = estimateTokenCount(compressedState)]

\* The context before it is cut to maxTokens: the base context, compressed
\* and estimated anew
CompressedContext(s, options) ==
  Only({Only({Recount(baseContext, compressedState) :
              compressedState \in {compressState(baseContext.uiState)}}) :
        baseContext \in {BasePrepareContextForModel(s, options)}})

\* The context that is returned: the compressed one, cut if it is too large
ContextWithin(baseContext, maxTokens) ==
  IF baseContext.tokenCount > maxTokens
  THEN simplifyContextForTokenLimit(baseContext, maxTokens)
  ELSE baseContext

\* this.updateTokenUsageStats(context.tokenCount); return context
Returned(s, context) ==
  [s |-> updateTokenUsageStats(s, context.tokenCount),
   context |-> Some(context), threw |-> FALSE]

\* OpenAIMCPServer.prepareContextForModel(options):
\* [s, context (none when it threw), threw]
prepareContextForModel(s, options) ==
  IF s.currentState = None
  THEN [s |-> s, context |-> None, threw |-> TRUE]
  ELSE Only({Returned(s, context) :
             context \in {ContextWithin(CompressedContext(s, options),
                                        Coalesce(options.maxTokens, s.maxTokens))}})

(***************************************************************************)
(* SpecCompact: an OpenAIMCPServer that is given snapshots and asked for   *)
(* contexts                                                                *)
(***************************************************************************)
ElScript ==
  Element("js", "script", Some("let a = 1"),
          Some(Bounds(Whole(0), Whole(0), Whole(0), Whole(0))), None)

\* The element dictionaries of the snapshots given to the server
CompactElementDicts ==
  {<<>>,
   <<<<"btn", [ElBtn EXCEPT !.bounds =
                 Some(Bounds(Whole(1), AndAHalf(2), Whole(10), AndAHalf(4)))]>>>>,
   <<<<"label", [ElLabel EXCEPT !.text = None]>>, <<"js", ElScript>>>>,
   <<<<"js", ElScript>>, <<"label", [ElLabel EXCEPT !.text = Some("a b")]>>,
     <<"btn", ElBtn>>>>,
   <<<<"btn", [ElBtn EXCEPT !.visible = Some(FALSE), !.text = Some("")]>>,
     <<"label", [ElLabel EXCEPT !.parent = Some("btn")]>>>>,
   <<<<"label", ElLabel>>,
     <<"btn", [ElBtn EXCEPT !.attributes = Some(<<<<"k", "1">>>>),
                            !.styles = Some(<<<<"color", "red">>>>),
                            !.children = Some(<<"label">>),
                            !.visible = Some(TRUE)]>>>>,
   <<<<"js", [ElScript EXCEPT !.attributes = Some(<<<<"k", "1">>>>),
                              !.styles = Some(<<<<"color", "red">>>>)]>>,
     <<"btn", [ElBtn EXCEPT !.bounds =
                 Some(Bounds(Whole(1), AndAHalf(2), Whole(10), AndAHalf(4))),
                            !.children = Some(<<"js">>)]>>>>}

CompactStates ==
  {UIState("v1", 1, elements, None) : elements \in CompactElementDicts}
  \cup {UIState("v1", 1, elements, Some("btn")) :
          elements \in {e \in CompactElementDicts : MHas(e, "btn")}}

\* The token limits asked for
CompactBudgets == {6 * n : n \in 4..16}

CompactConfigs ==
  {ServerConfig(None, None, None), ServerConfig(None, Some(32), Some(TRUE))}

CompactOptions ==
  {ContextOptions(maxTokens, includeInvisible, includeFullElementDetails) :
     maxTokens \in {None} \cup {Some(b) : b \in CompactBudgets},
     includeInvisible \in {None, Some(TRUE)},
     includeFullElementDetails \in {None, Some(TRUE)}}

CxCall(op, state, options, pre, context, threw) ==
  [op |-> op, state |-> state, options |-> options, pre |-> pre,
   context |-> context, threw |-> threw]

\* The variables of the other specifications, which SpecCompact leaves alone
CxOthers == <<lru, lruLast, sc, scLast, srv, srvLast, df, ch, cl, pa, ec,
              fl, nt, wv, hs>>
CxOthersInit ==
  /\ lru = None
  /\ lruLast = None
  /\ sc = None
  /\ scLast = None
  /\ srv = None
  /\ srvLast = None
  /\ df = None
  /\ ch = None
  /\ cl = None
  /\ pa = None
  /\ ec = None
  /\ fl = None
  /\ nt = None
  /\ wv = None
  /\ hs = None

CxInit ==
  /\ \E config \in CompactConfigs : cx = NewServer(config)
  /\ cxLast = CxCall("new", None, None, cx, None, FALSE)
  /\ CxOthersInit

CxProcessInitialStateStep ==
  \E state \in CompactStates :
    /\ cx.calls < MaxLoads
    /\ cx' = [processInitialState(cx, state) EXCEPT !.calls = cx.calls + 1]
    /\ cxLast' = CxCall("processInitialState", Some(state), None, cx, None, FALSE)
    /\ UNCHANGED CxOthers

CxPrepareContextForModelStep ==
  \E options \in CompactOptions :
    /\ cx.tokenUsageStats.count < MaxContextCalls
    /\ \E r \in {prepareContextForModel(cx, options)} :
         /\ cx' = r.s
         /\ cxLast' = CxCall("prepareContextForModel", None, Some(options), cx,
                             r.context, r.threw)
    /\ UNCHANGED CxOthers

CxNext ==
  \/ CxProcessInitialStateStep
  \/ CxPrepareContextForModelStep

SpecCompact == CxInit /\ [][CxNext]_vars

\* The limit of the last call: options.maxTokens ?? this.maxTokens
CxMaxTokens == Coalesce(Val(cxLast.options).maxTokens, cxLast.pre.maxTokens)

\* The last call returned a context
CxReturned == cxLast.op = "prepareContextForModel" /\ ~cxLast.threw

\* The context of the last call before it was cut to the limit
CxUncut == CompressedContext(cxLast.pre, Val(cxLast.options))

\* The estimate of what the last call returns for the current state without
\* its elements
CxEmptyCost ==
  estimateTokenCount([CxUncut.uiState EXCEPT !.elements = <<>>])

\* C6: for any current state and any maxTokens that is at least the estimate
\* of the state with no elements, the context returned by
\* prepareContextForModel has a tokenCount, which is the estimate of the
\* returned uiState, of at most maxTokens.
C6_BudgetSafety ==
  (CxReturned /\ CxMaxTokens >= CxEmptyCost) =>
    /\ Val(cxLast.context).tokenCount = estimateTokenCount(Val(cxLast.context).uiState)
    /\ Val(cxLast.context).tokenCount <= CxMaxTokens

\* The elements of the context of the last call, and of that context before
\* it was cut
CxKept == Val(cxLast.context).uiState.elements
CxUncutElements == CxUncut.uiState.elements

\* A context that was cut to the limit: of its elements one was kept in its
\* short form and another was left out
C6_Witness ==
  /\ CxReturned
  /\ CxMaxTokens >= CxEmptyCost
  /\ CxUncut.tokenCount > CxMaxTokens
  /\ Len(CxKept) < Len(CxUncutElements)
  /\ \E i \in 1..Len(CxKept) :
       /\ CxKept[i][2] # MGet(CxUncutElements, CxKept[i][1])
       /\ CxKept[i][2] = SimplifiedElement(MGet(CxUncutElements, CxKept[i][1]))
  /\ Val(cxLast.context).tokenCount <= CxMaxTokens

(***************************************************************************)
(* SpecChain: a UIStateCache that holds S1 is patched with                 *)
(* computeDiff(S1, S2) and then with computeDiff(S2, S3); another cache    *)
(* that holds S1 is patched with computeDiff(S1, S3)                       *)
(***************************************************************************)
\* The variants of the button element in the chained snapshots
ChainButtons ==
  {ElBtn,
   [ElBtn EXCEPT !.text = Some("Submit")],
   [ElBtn EXCEPT !.styles = Some(<<<<"color", "red">>>>)],
   [ElBtn EXCEPT !.text = Some("Submit"), !.styles = Some(<<<<"color", "red">>>>)]}

ChainElementDicts ==
  {<<>>, <<<<"btn", ElBtn>>, <<"label", ElLabel>>>>}
  \cup {<<<<"btn", b>>>> : b \in ChainButtons}

ChainStates(version, timestamp) ==
  {UIState(version, timestamp, elements, None) : elements \in ChainElementDicts}

\* The variables of the other specifications, which SpecChain leaves alone
ChainOthers == <<lru, lruLast, sc, scLast, srv, srvLast, df, cx, cxLast, cl, pa, ec,
                 fl, nt, wv, hs>>
ChainOthersInit ==
  /\ lru = None
  /\ lruLast = None
  /\ sc = None
  /\ scLast = None
  /\ srv = None
  /\ srvLast = None
  /\ df = None
  /\ cx = None
  /\ cxLast = None
  /\ cl = None
  /\ pa = None
  /\ ec = None
  /\ fl = None
  /\ nt = None
  /\ wv = None
  /\ hs = None

\* cache = new UIStateCache(10); cache.addState(s1)
ChainInit ==
  /\ \E s1 \in ChainStates("v1", 1), s2 \in ChainStates("v2", 2),
        s3 \in ChainStates("v3", 3) :
       ch = [s1 |-> s1, s2 |-> s2, s3 |-> s3,
             cache |-> SCAddState(NewUIStateCache(DefaultCacheCapacity), s1),
             first |-> None, chained |-> None, single |-> None]
  /\ ChainOthersInit

\* first = cache.applyUpdate(s1.version, computeDiff(s1, s2))
ChainFirstStep ==
  /\ ch.first = None
  /\ \E r \in {SCApplyUpdate(ch.cache, ch.s1.version, computeDiff(ch.s1, ch.s2))} :
       ch' = [ch EXCEPT !.cache = r.c, !.first = r.result]
  /\ UNCHANGED ChainOthers

\* chained = cache.applyUpdate(s2.version, computeDiff(s2, s3))
ChainSecondStep ==
  /\ ch.first # None
  /\ ch.chained = None
  /\ \E r \in {SCApplyUpdate(ch.cache, ch.s2.version, computeDiff(ch.s2, ch.s3))} :
       ch' = [ch EXCEPT !.cache = r.c, !.chained = r.result]
  /\ UNCHANGED ChainOthers

\* other = new UIStateCache(10); other.addState(s1);
\* single = other.applyUpdate(s1.version, computeDiff(s1, s3))
ChainSingleStep ==
  /\ ch.single = None
  /\ ch' = [ch EXCEPT !.single =
              SCApplyUpdate(SCAddState(NewUIStateCache(DefaultCacheCapacity), ch.s1),
                            ch.s1.version, computeDiff(ch.s1, ch.s3)).result]
  /\ UNCHANGED ChainOthers

ChainNext ==
  \/ ChainFirstStep
  \/ ChainSecondStep
  \/ ChainSingleStep

SpecChain == ChainInit /\ [][ChainNext]_vars

\* C11: with S1 cached, applyUpdate(v1, computeDiff(S1, S2)) followed by
\* applyUpdate(v2, computeDiff(S2, S3)) yields a snapshot structurally equal
\* to the one obtained by applying the single patch computeDiff(S1, S3) to S1.
C11_PatchChaining ==
  (IsSome(ch.chained) /\ IsSome(ch.single)) =>
    StructurallyEqual(Val(ch.chained), Val(ch.single))

(***************************************************************************)
(* Claims about computeDiff, checked under SpecDiff                        *)
(***************************************************************************)
\* C17: for every snapshot A, computeDiff(A, A) has no added, no modified
\* and no removed entries and carries neither a focus nor a hover field,
\* with baseVersion and version both equal to A.version.
C17_DiffOfASnapshotWithItself ==
  (IsSome(df.update) /\ df.newState = df.oldState) =>
    /\ Val(df.update).added = None
    /\ Val(df.update).modified = None
    /\ Val(df.update).removed = None
    /\ Val(df.update).focus = None
    /\ Val(df.update).hover = None
    /\ Val(df.update).baseVersion = df.oldState.version
    /\ Val(df.update).version = df.oldState.version

\* computeDiff(A, A) has returned for a snapshot A with two elements and a
\* focused element
C17_Witness ==
  /\ IsSome(df.update)
  /\ df.newState = df.oldState
  /\ Len(df.oldState.elements) = 2
  /\ IsSome(df.oldState.focus)

\* The ids that are in both snapshots
DfCommonIds == MKeySet(df.oldState.elements) \cap MKeySet(df.newState.elements)

\* The entries of a property of the update that is left out when empty
DfEntries(o) == IF IsSome(o) THEN Val(o) ELSE <<>>

\* The properties that computeElementChanges compares
DfComparedFields ==
  {"text", "bounds", "interactable", "visible", "attributes", "styles", "children"}

\* The old and the new element differ structurally in a property
DfDiffers(id, field) ==
  ElementUnordered(MGet(df.oldState.elements, id))[field]
    # ElementUnordered(MGet(df.newState.elements, id))[field]

\* C18: for every element id present in both snapshots, if any of text,
\* bounds, interactable, visible, attributes, styles or children differs
\* structurally between the old and the new element, the modified map of the
\* patch has an entry for that id that contains each differing field.
C18_ModifiedIsComplete ==
  IsSome(df.update) =>
    \A id \in DfCommonIds : \A field \in DfComparedFields :
      DfDiffers(id, field) =>
        /\ MHas(DfEntries(Val(df.update).modified), id)
        /\ MHas(MGet(DfEntries(Val(df.update).modified), id), field)

\* The content that hashElement fingerprints: type, text || '', bounds,
\* interactable || false, visible !== false, attributes || {}
DfFingerprinted(element) ==
  [type |-> element.type,
   text |-> IF IsSome(element.text) THEN Val(element.text) ELSE "",
   bounds |-> element.bounds,
   interactable |-> IsSome(element.interactable) /\ Val(element.interactable),
   visible |-> element.visible # Some(FALSE),
   attributes |-> DictAsFunction(IF IsSome(element.attributes)
                                 THEN Val(element.attributes) ELSE <<>>)]

\* C19: computeDiff treats an element present in both snapshots as unchanged
\* (no entry in modified) only when its fingerprinted content is really
\* equal; two different contents with the same 32-bit hash are still
\* reported in modified.
C19_UnchangedOnlyWhenContentEqual ==
  IsSome(df.update) =>
    \A id \in DfCommonIds :
      ~MHas(DfEntries(Val(df.update).modified), id) =>
        DfFingerprinted(MGet(df.oldState.elements, id))
          = DfFingerprinted(MGet(df.newState.elements, id))

\* C20: computeDiff(old, new).added contains exactly the ids of new.elements
\* that are absent from old.elements, each with the full new element, and
\* removed contains exactly the ids of old.elements that are absent from
\* new.elements, each once.
C20_AddedAndRemovedAreExact ==
  IsSome(df.update) =>
    LET added == DfEntries(Val(df.update).added)
        removed == DfEntries(Val(df.update).removed)
    IN /\ MKeySet(added)
            = MKeySet(df.newState.elements) \ MKeySet(df.oldState.elements)
       /\ Cardinality(MKeySet(added)) = Len(added)
       /\ \A id \in MKeySet(added) : MGet(added, id) = MGet(df.newState.elements, id)
       /\ {removed[i] : i \in 1..Len(removed)}
            = MKeySet(df.oldState.elements) \ MKeySet(df.newState.elements)
       /\ Cardinality({removed[i] : i \in 1..Len(removed)}) = Len(removed)

\* computeDiff has returned a patch that adds an element and removes another
C20_Witness ==
  /\ IsSome(df.update)
  /\ IsSome(Val(df.update).added)
  /\ IsSome(Val(df.update).removed)

\* C21: every field present in a modified entry of computeDiff(old, new) has
\* different values in the old and the new element, an element with no
\* differing field has no modified entry, and the patch's baseVersion is
\* old.version and its version is new.version.
C21_DiffMinimality ==
  IsSome(df.update) =>
    LET modified == DfEntries(Val(df.update).modified)
    IN /\ \A i \in 1..Len(modified) :
            /\ modified[i][1] \in DfCommonIds
            /\ Len(modified[i][2]) > 0
            /\ \A j \in 1..Len(modified[i][2]) :
                 /\ modified[i][2][j][1] \in DfComparedFields
                 /\ DfDiffers(modified[i][1], modified[i][2][j][1])
       /\ \A id \in DfCommonIds :
            (\A field \in DfComparedFields : ~DfDiffers(id, field)) =>
              ~MHas(modified, id)
       /\ Val(df.update).baseVersion = df.oldState.version
       /\ Val(df.update).version = df.newState.version

\* computeDiff has returned a patch between two versions whose modified map
\* has an entry for one element, while another element of both snapshots has
\* no differing field
C21_Witness ==
  /\ IsSome(df.update)
  /\ IsSome(Val(df.update).modified)
  /\ df.oldState.version # df.newState.version
  /\ \E id \in DfCommonIds : \A field \in DfComparedFields : ~DfDiffers(id, field)

\* The value of a focus or hover field of a patch for a snapshot's focus or
\* hover: the id, or null when the snapshot has none
DfPointerValue(pointer) == IF IsSome(pointer) THEN Val(pointer) ELSE Null

\* C22: computeDiff(old, new) carries a focus field exactly when old.focus
\* differs from new.focus, with the new id as value or null when the new
\* snapshot has no focus; the same holds independently for hover.
C22_FocusAndHoverInADiff ==
  IsSome(df.update) =>
    /\ IsSome(Val(df.update).focus) <=> (df.oldState.focus # df.newState.focus)
    /\ IsSome(Val(df.update).focus) =>
         Val(Val(df.update).focus) = DfPointerValue(df.newState.focus)
    /\ IsSome(Val(df.update).hover) <=> (df.oldState.hover # df.newState.hover)
    /\ IsSome(Val(df.update).hover) =>
         Val(Val(df.update).hover) = DfPointerValue(df.newState.hover)

(***************************************************************************)
(* SpecDiffTwice: computeDiff called twice on the same two snapshots, the  *)
(* second time on objects whose elements were inserted in another order    *)
(***************************************************************************)
\* The dictionaries with the entries of m, in every insertion order
Reorderings(m) ==
  {p \in [1..Len(m) -> {m[i] : i \in 1..Len(m)}] :
     {p[i] : i \in 1..Len(m)} = {m[i] : i \in 1..Len(m)}}

\* The snapshot with its elements inserted in another order
ReorderedStates(state) ==
  {[state EXCEPT !.elements = elements] : elements \in Reorderings(state.elements)}

TwiceInit ==
  /\ \E oldState \in {st \in DiffStates("v1", 1) : st.hover = None /\ st.focus # Some("")} :
     \E newState \in {st \in DiffStates("v2", 2) : st.hover = None /\ st.focus # Some("")} :
     \E oldAgain \in ReorderedStates(oldState) :
     \E newAgain \in ReorderedStates(newState) :
       df = [oldState |-> oldState, newState |-> newState,
             oldAgain |-> oldAgain, newAgain |-> newAgain,
             update |-> None, again |-> None]
  /\ DiffOthersInit

\* update = computeDiff(oldState, newState)
TwiceFirstStep ==
  /\ df.update = None
  /\ df' = [df EXCEPT !.update = Some(computeDiff(df.oldState, df.newState))]
  /\ UNCHANGED DiffOthers

\* again = computeDiff(oldAgain, newAgain)
TwiceSecondStep ==
  /\ df.again = None
  /\ df' = [df EXCEPT !.again = Some(computeDiff(df.oldAgain, df.newAgain))]
  /\ UNCHANGED DiffOthers

TwiceNext ==
  \/ TwiceFirstStep
  \/ TwiceSecondStep

SpecDiffTwice == TwiceInit /\ [][TwiceNext]_vars

\* A partial element as a function of its property names
DfPartialUnordered(partial) ==
  [field \in MKeySet(partial) |->
     IF field \in {"attributes", "styles"}
     THEN OptionalDictAsFunction(MGet(partial, field))
     ELSE MGet(partial, field)]

\* The added map of a patch, the order of its keys set aside
DfAddedUnordered(update) ==
  [id \in MKeySet(DfEntries(update.added)) |->
     ElementUnordered(MGet(DfEntries(update.added), id))]

\* The modified map of a patch, the order of its keys set aside
DfModifiedUnordered(update) ==
  [id \in MKeySet(DfEntries(update.modified)) |->
     DfPartialUnordered(MGet(DfEntries(update.modified), id))]

\* C25: for the same two snapshots, including snapshots whose element maps
\* hold the same entries inserted in a different order, computeDiff produces
\* identical patch content: the same added and modified maps, the same
\* removed sequence, the same focus and hover fields.
C25_DiffDeterminism ==
  (IsSome(df.update) /\ IsSome(df.again)) =>
    /\ DfAddedUnordered(Val(df.update)) = DfAddedUnordered(Val(df.again))
    /\ DfModifiedUnordered(Val(df.update)) = DfModifiedUnordered(Val(df.again))
    /\ Val(df.update).removed = Val(df.again).removed
    /\ Val(df.update).focus = Val(df.again).focus
    /\ Val(df.update).hover = Val(df.again).hover

(***************************************************************************)
(* Claims about the elements of a compacted state, checked under           *)
(* SpecCompact                                                             *)
(***************************************************************************)
\* Every id listed in the children of an element is the id of an element
ChildrenPresent(elements) ==
  \A i \in 1..Len(elements) :
    IsSome(elements[i][2].children) =>
      \A j \in 1..Len(Val(elements[i][2].children)) :
        MHas(elements, Val(elements[i][2].children)[j])

\* The last call cut its context to the limit, with filterElements and the
\* loop of simplifyContextForTokenLimit
CxCut == CxReturned /\ CxUncut.tokenCount > CxMaxTokens

\* C15: in the state returned by compaction (filterElements and the
\* token-limit simplification behind prepareContextForModel), every id
\* listed in the children of an element refers to an element that is present
\* in the output; ids of pruned elements are removed from children arrays.
C15_ChildrenReferToKeptElements ==
  (CxCut /\ ChildrenPresent(CxUncutElements)) => ChildrenPresent(CxKept)

\* The elements of the snapshot the server held at the last call
CxInputElements == Val(cxLast.pre.currentState).elements

\* The integer nearest to a number counted in halves, the half going up
NearestInteger(h) == 2 * ((h + 1) \div 2)

\* The normalized bounds: each number replaced by the nearest integer
NormalizedBounds(b) ==
  IF IsSome(b)
  THEN Some(Bounds(NearestInteger(Val(b).x), NearestInteger(Val(b).y),
                   NearestInteger(Val(b).width), NearestInteger(Val(b).height)))
  ELSE None

\* The properties of an element that may be left out of it
OptionalFields ==
  {"text", "attributes", "interactable", "visible", "children", "parent",
   "zIndex", "styles"}

\* Every property that out has is the property of in, bounds being rounded
ComesFrom(out, in) ==
  /\ out.id = in.id
  /\ out.type = in.type
  /\ \A field \in OptionalFields : IsSome(out[field]) => out[field] = in[field]
  /\ IsSome(out.bounds) => out.bounds = NormalizedBounds(in.bounds)

\* C16: every element id in the state returned by compressState,
\* filterElements or prepareContextForModel is an id of the input snapshot,
\* and every field value of an output element is the (normalized) value of
\* that field in the input element.
C16_CompactionInventsNothing ==
  CxReturned =>
    \A i \in 1..Len(CxKept) :
      /\ MHas(CxInputElements, CxKept[i][1])
      /\ ComesFrom(CxKept[i][2], MGet(CxInputElements, CxKept[i][1]))

\* A context that was cut to the limit: an element of the snapshot was left
\* out, and one was kept with rounded bounds or in its short form, which has
\* no bounds
C16_Witness ==
  /\ CxCut
  /\ Len(CxKept) < Len(CxInputElements)
  /\ \E i \in 1..Len(CxKept) :
       \/ /\ IsSome(CxKept[i][2].bounds)
          /\ CxKept[i][2].bounds # MGet(CxInputElements, CxKept[i][1]).bounds
       \/ /\ CxKept[i][2].bounds = None
          /\ IsSome(MGet(CxInputElements, CxKept[i][1]).bounds)

\* The state that the loop of simplifyContextForTokenLimit walks in the last
\* call, the order in which it walks it, and the loop's variables when it
\* enters its i-th round
CxFiltered == FilterForTokenLimit(CxUncut.uiState)
CxSorted == SortByImportance(CxFiltered.elements)
CxSoFar(i) ==
  KeepElementsFrom(CxFiltered.elements, SubSeq(CxSorted, 1, i - 1), 1,
                   [newElements |-> <<>>,
                    currentTokenCount |-> estimateTokenCount(CxFiltered)],
                   CxMaxTokens)

\* The estimated cost of the output built before round i with one more
\* element
CxCostWith(i, element) ==
  estimateTokenCount([CxFiltered EXCEPT
                        !.elements = MPut(CxSoFar(i).newElements, element.id, element)])

\* C28: during the greedy fill of the token-limit simplification, when the
\* full form of an interactable element would overflow the budget, its
\* essential-fields projection (id, type, text, interactable) is tried, and
\* the element is kept in that reduced form whenever adding the projection to
\* the output built so far keeps the estimated cost of the output within
\* maxTokens.
C28_ReducedFormIsKeptWhenItFits ==
  CxCut =>
    \A i \in 1..Len(CxSorted) :
      LET element == MGet(CxFiltered.elements, CxSorted[i])
      IN (/\ TruthyBoolean(element.interactable)
          /\ CxSoFar(i).currentTokenCount + ElementTokens(element) > CxMaxTokens
          /\ CxCostWith(i, element) > CxMaxTokens
          /\ CxCostWith(i, SimplifiedElement(element)) <= CxMaxTokens)
         => MLookup(CxKept, CxSorted[i]) = Some(SimplifiedElement(element))

(***************************************************************************)
(* Objects and references                                                  *)
(*                                                                         *)
(* A heap holds the state objects and the element objects, each known by   *)
(* its address, which is its place in the heap. The elements of a state    *)
(* object are a dictionary from ids to addresses of element objects, and   *)
(* so is the added property of an update. The values of the properties of  *)
(* an element (bounds, attributes, styles, children) are never written in  *)
(* place outside a deep copy, and are kept as values.                      *)
(***************************************************************************)
NewHeap == [states |-> <<>>, elems |-> <<>>]

RECURSIVE AllocElementsFrom(_, _, _, _)
\* One new element object for each entry of a dictionary of elements:
\* [h, refs], refs being the dictionary of their addresses
AllocElementsFrom(h, elements, i, refs) ==
  IF i > Len(elements) THEN [h |-> h, refs |-> refs]
  ELSE AllocElementsFrom([h EXCEPT !.elems = Append(h.elems, elements[i][2])],
                         elements, i + 1,
                         MPut(refs, elements[i][1], Len(h.elems) + 1))

AllocElements(h, elements) == AllocElementsFrom(h, elements, 1, <<>>)

\* A new state object with new element objects: [h, ref]
AllocState(h, state) ==
  Only({[h |-> [a.h EXCEPT !.states =
                  Append(a.h.states, [state EXCEPT !.elements = a.refs])],
         ref |-> Len(h.states) + 1] :
        a \in {AllocElements(h, state.elements)}})

\* The dictionary of the element objects behind a dictionary of addresses
DerefElements(h, refs) ==
  [i \in 1..Len(refs) |-> <<refs[i][1], h.elems[refs[i][2]]>>]

\* The snapshot that the state object at ref holds
Deref(h, ref) ==
  [h.states[ref] EXCEPT !.elements = DerefElements(h, h.states[ref].elements)]

\* The content of an update: its added elements as they are now
DerefUpdate(h, update) ==
  [update EXCEPT !.added = IF IsSome(update.added)
                           THEN Some(DerefElements(h, Val(update.added)))
                           ELSE None]

\* A faulty copy: the object itself
RefJSONClone_SameObject(h, ref) == [h |-> h, ref |-> ref]

\* JSON.parse(JSON.stringify(state)), state being the object at ref: [h, ref]
RefJSONClone(h, ref) == AllocState(h, JSONClone(Deref(h, ref)))

RECURSIVE CompressElementsFrom(_, _, _)
\* for (const id in compressedState.elements): the element objects of the
\* copy are written in place
CompressElementsFrom(h, refs, i) ==
  IF i > Len(refs) THEN h
  ELSE CompressElementsFrom([h EXCEPT !.elems[refs[i][2]] = CompressElement(@)],
                            refs, i + 1)

\* compressState(state), state being the object at ref: [h, ref], ref being
\* the address of compressedState
RefCompressState(h, ref) ==
  Only({[h |-> CompressElementsFrom(copy.h, copy.h.states[copy.ref].elements, 1),
         ref |-> copy.ref] :
        copy \in {RefJSONClone(h, ref)}})

RECURSIVE AssignElementsFrom(_, _, _, _)
\* for (const [id, changes] of Object.entries(update.modified))
\*   { const element = elements[id]; if (element) Object.assign(element, changes) }
AssignElementsFrom(h, elements, modified, i) ==
  IF i > Len(modified) THEN h
  ELSE AssignElementsFrom(
         IF MHas(elements, modified[i][1])
         THEN [h EXCEPT !.elems[MGet(elements, modified[i][1])] =
                 ObjectAssign(@, modified[i][2])]
         ELSE h,
         elements, modified, i + 1)

\* The three loops of applyUpdate and its assignments to focus, hover and
\* version, on the state object at ref
PatchInPlace(h, ref, update) ==
  Only({[(IF IsSome(update.modified)
          THEN AssignElementsFrom(h, withAdded, Val(update.modified), 1)
          ELSE h) EXCEPT
           !.states[ref].elements = RemoveElements(withAdded, update.removed),
           !.states[ref].focus = PatchPointer(@, update.focus),
           !.states[ref].hover = PatchPointer(@, update.hover),
           !.states[ref].version = update.version] :
        withAdded \in {AddElements(h.states[ref].elements, update.added)}})

\* BaseMCPServer.applyUpdate(state, update), and the same code in
\* UIStateCache.applyUpdate: [h, ref], ref being the address of newState
RefApplyPatch(h, base, update) ==
  Only({[h |-> [PatchInPlace(copy.h, copy.ref, update) EXCEPT
                  !.states[copy.ref].timestamp = update.timestamp],
         ref |-> copy.ref] :
        copy \in {RefJSONClone(h, base)}})

\* UIStateCache.addState(state), state being the object at ref
RefAddState(h, c, ref) ==
  [stateCache |-> LRUSet(c.stateCache, getStateKey(h.states[ref]), ref),
   versionToTimestamp |->
     MPut(c.versionToTimestamp, h.states[ref].version, h.states[ref].timestamp)]

\* UIStateCache.applyUpdate(baseVersion, update): [h, c, base, result], base
\* and result being optional addresses
RefCacheApplyUpdate(h, c, baseVersion, update) ==
  Only({IF b.result = None
        THEN [h |-> h, c |-> b.c, base |-> None, result |-> None]
        ELSE Only({[h |-> p.h, c |-> RefAddState(p.h, b.c, p.ref),
                    base |-> b.result, result |-> Some(p.ref)] :
                   p \in {RefApplyPatch(h, Val(b.result), update)}}) :
        b \in {SCGetStateByVersion(c, baseVersion)}})

\* BaseMCPServer.processStateUpdate(update): [h, s, threw, base, result]
RefProcessStateUpdate(h, s, update) ==
  IF s.currentState = None
     \/ update.baseVersion # h.states[Val(s.currentState)].version
  THEN [h |-> h, s |-> s, threw |-> TRUE, base |-> None, result |-> None]
  ELSE Only({[h |-> p.h,
              s |-> IF TruthyNum(s.maxHistoryStates)
                    THEN addStateToHistory([s EXCEPT !.currentState = Some(p.ref)], p.ref)
                    ELSE [s EXCEPT !.currentState = Some(p.ref)],
              threw |-> FALSE, base |-> s.currentState, result |-> Some(p.ref)] :
             p \in {RefApplyPatch(h, Val(s.currentState), update)}})

(***************************************************************************)
(* WebMCPClient                                                            *)
(***************************************************************************)
\* new ElementCache(1000)
ElementCacheCapacity == 1000

\* The client after construction and initialize(config):
\* stateCache = new UIStateCache(config.optimization?.maxHistoryStates || 10).
\* A subscriber is known by the name of the object it hands the update to.
NewClient(maxHistoryStates) ==
  [currentState |-> None,
   lastVersion |-> "0",
   stateCache |-> NewUIStateCache(IF TruthyNum(maxHistoryStates)
                                  THEN Val(maxHistoryStates)
                                  ELSE DefaultCacheCapacity),
   elementCache |-> NewLRU(ElementCacheCapacity),
   subscribers |-> <<>>]

\* generateVersion(): `${timestamp}-${random}`
generateVersion(now, random) == ToString(now) \o "-" \o ToString(random)

RECURSIVE ElementCacheAddElementsFrom(_, _, _, _)
\* ElementCache.addElements(elements): addElement(element) for each of them
ElementCacheAddElementsFrom(h, c, refs, i) ==
  IF i > Len(refs) THEN c
  ELSE ElementCacheAddElementsFrom(
         h, LRUSet(c, h.elems[refs[i][2]].id, refs[i][2]), refs, i + 1)

\* captureState(), the platform state having the given elements and focus:
\* [h, client, ref], ref being the address of the state it returns
ClientCaptureState(h, client, now, random, elements, focus) ==
  Only({[h |-> a.h,
         client |-> [client EXCEPT
                       !.stateCache = RefAddState(a.h, @, a.ref),
                       !.elementCache =
                         ElementCacheAddElementsFrom(a.h, @, a.h.states[a.ref].elements, 1),
                       !.currentState = Some(a.ref),
                       !.lastVersion = a.h.states[a.ref].version],
         ref |-> a.ref] :
        a \in {AllocState(h, UIState(generateVersion(now, random), now, elements, focus))}})

\* A MutationRecord of type childList: the element data of its added
\* element nodes and the ids of its removed element nodes
ChildList(addedNodes, removedNodes) ==
  [type |-> "childList", addedNodes |-> addedNodes, removedNodes |-> removedNodes,
   target |-> "", data |-> None]

\* A MutationRecord of type attributes or characterData: the id of its
\* target and the element data of the target
TargetChanged(target, data) ==
  [type |-> "attributes", addedNodes |-> <<>>, removedNodes |-> <<>>,
   target |-> target, data |-> data]

\* The body of the loop of handleDomMutations over the mutations; acc is
\* [h, added, modified, removed]
HandleMutation(acc, elements, mutation) ==
  IF mutation.type = "childList"
  THEN Only({[h |-> a.h, added |-> a.refs, modified |-> acc.modified,
              removed |-> acc.removed \o mutation.removedNodes] :
             a \in {AllocElementsFrom(
                      acc.h,
                      [j \in 1..Len(mutation.addedNodes) |->
                         <<mutation.addedNodes[j].id, mutation.addedNodes[j]>>],
                      1, acc.added)}})
  ELSE IF Truthy(mutation.target) /\ MHas(elements, mutation.target)
          /\ IsSome(mutation.data)
  THEN [acc EXCEPT !.modified =
          MPut(@, mutation.target,
               <<<<"attributes", Val(mutation.data).attributes>>,
                 <<"text", Val(mutation.data).text>>,
                 <<"bounds", Val(mutation.data).bounds>>,
                 <<"styles", Val(mutation.data).styles>>>>)]
  ELSE acc

RECURSIVE HandleMutationsFrom(_, _, _, _)
HandleMutationsFrom(acc, elements, mutations, i) ==
  IF i > Len(mutations) THEN acc
  ELSE Only({HandleMutationsFrom(next, elements, mutations, i + 1) :
             next \in {HandleMutation(acc, elements, mutations[i])}})

\* A call of applyUpdate that returned newState: the addresses of its base
\* and of newState, and the snapshot at base before and after the call
ApplyCall(hBefore, hAfter, base, result) ==
  [base |-> base, result |-> result,
   before |-> Deref(hBefore, base), after |-> Deref(hAfter, base)]

RECURSIVE NotifyFrom(_, _, _, _)
\* The loop of notifySubscribers: each subscriber hands the update to
\* server.processStateUpdate, inside try and catch. n is [h, server, calls]
NotifyFrom(n, subscribers, i, update) ==
  IF i > Len(subscribers) THEN n
  ELSE Only({Only({NotifyFrom(next, subscribers, i + 1, update) :
                   next \in {[h |-> r.h, server |-> r.s,
                              calls |-> IF r.threw THEN n.calls
                                        ELSE Append(n.calls,
                                                    ApplyCall(n.h, r.h, Val(r.base),
                                                              Val(r.result)))]}}) :
             r \in {RefProcessStateUpdate(n.h, n.server, update)}})

\* notifySubscribers(update): [h, client, server, serverCalls, cacheCall]
NotifySubscribers(h, client, server, update) ==
  Only({IF Truthy(update.baseVersion)
        THEN Only({[h |-> r.h, client |-> [client EXCEPT !.stateCache = r.c],
                    server |-> n.server, serverCalls |-> n.calls,
                    cacheCall |-> IF IsSome(r.result)
                                  THEN Some(ApplyCall(n.h, r.h, Val(r.base),
                                                      Val(r.result)))
                                  ELSE None] :
                   r \in {RefCacheApplyUpdate(n.h, client.stateCache,
                                              update.baseVersion, update)}})
        ELSE [h |-> n.h, client |-> client, server |-> n.server,
              serverCalls |-> n.calls, cacheCall |-> None] :
        n \in {NotifyFrom([h |-> h, server |-> server, calls |-> <<>>],
                          client.subscribers, 1, update)}})

\* A faulty end of handleDomMutations: lastVersion is left as it was
MadeUpdate_KeepsLastVersion(h, client, server, update) ==
  Only({[h |-> n.h, client |-> n.client,
         server |-> n.server, update |-> Some(update),
         content |-> Some(DerefUpdate(h, update)),
         serverCalls |-> n.serverCalls, cacheCall |-> n.cacheCall] :
        n \in {NotifySubscribers(PatchInPlace(h, Val(client.currentState), update),
                                 client, server, update)}})

\* The end of handleDomMutations, from the update it made:
\* this.applyUpdate(update); this.notifySubscribers(update);
\* this.lastVersion = newVersion
MadeUpdate(h, client, server, update) ==
  Only({[h |-> n.h,
         client |-> [n.client EXCEPT !.lastVersion = update.version],
         server |-> n.server, update |-> Some(update),
         content |-> Some(DerefUpdate(h, update)),
         serverCalls |-> n.serverCalls, cacheCall |-> n.cacheCall] :
        n \in {NotifySubscribers(PatchInPlace(h, Val(client.currentState), update),
                                 client, server, update)}})

\* handleDomMutations(mutations):
\* [h, client, server, update, content, serverCalls, cacheCall], update
\* being the update it made, if any, and content what the update held when
\* it was made
ClientHandleDomMutations(h, client, server, now, random, mutations) ==
  IF client.currentState = None
  THEN [h |-> h, client |-> client, server |-> server, update |-> None,
        content |-> None, serverCalls |-> <<>>, cacheCall |-> None]
  ELSE Only({IF Len(m.added) > 0 \/ Len(m.modified) > 0 \/ Len(m.removed) > 0
             THEN MadeUpdate(m.h, client, server,
                             Update(client.lastVersion, generateVersion(now, random),
                                    now, NonEmpty(m.added), NonEmpty(m.modified),
                                    NonEmpty(m.removed), None, None))
             ELSE [h |-> m.h, client |-> client, server |-> server, update |-> None,
                   content |-> None, serverCalls |-> <<>>, cacheCall |-> None] :
             m \in {HandleMutationsFrom(
                      [h |-> h, added |-> <<>>, modified |-> <<>>, removed |-> <<>>],
                      h.states[Val(client.currentState)].elements, mutations, 1)}})

\* subscribeToStateChanges(update => server.processStateUpdate(update))
ClientSubscribe(client) == [client EXCEPT !.subscribers = Append(@, "server")]

(***************************************************************************)
(* SpecClient: a WebMCPClient that captures states and handles DOM         *)
(* mutations, and a server that is given a captured state and listens to   *)
(* the client                                                              *)
(***************************************************************************)
MaxCaptures == 1    \* calls of captureState
MaxMutations == 2   \* calls of handleDomMutations

\* Math.floor(Math.random() * 1000)
ClRandoms == {7}

ClElementDicts == {<<<<"btn", ElBtn>>>>, <<<<"btn", ElBtn>>, <<"label", ElLabel>>>>}

\* The lists of mutations handed to handleDomMutations
ClMutationLists ==
  {<<>>,
   <<ChildList(<<ElLabel>>, <<>>)>>,
   <<TargetChanged("label", Some([ElLabel EXCEPT !.text = Some("Submit")]))>>,
   <<TargetChanged("btn", Some([ElBtn EXCEPT !.text = Some("Submit"),
                                             !.attributes = Some(<<<<"k", "1">>>>)]))>>,
   <<ChildList(<<[ElBtn EXCEPT !.id = "link", !.type = "link"]>>, <<"btn">>),
     TargetChanged("js", Some(ElScript))>>,
   <<ChildList(<<ElLabel>>, <<"label">>),
     TargetChanged("label", Some([ElLabel EXCEPT !.text = Some("Go")]))>>}

\* The variables of the other specifications, which SpecClient leaves alone
ClOthers == <<lru, lruLast, sc, scLast, srv, srvLast, df, cx, cxLast, ch, pa, ec,
              fl, nt, wv, hs>>
ClOthersInit ==
  /\ lru = None
  /\ lruLast = None
  /\ sc = None
  /\ scLast = None
  /\ srv = None
  /\ srvLast = None
  /\ df = None
  /\ cx = None
  /\ cxLast = None
  /\ ch = None
  /\ pa = None
  /\ ec = None
  /\ fl = None
  /\ nt = None
  /\ wv = None
  /\ hs = None

\* captured, delivered, serverCalls and cacheCall are history: the versions
\* and snapshots handed to addState by captureState, the updates handed to
\* subscribers with their content when they were made, and the calls of
\* applyUpdate made by the last handler
ClInit ==
  /\ \E maxHistoryStates \in {None, Some(1)} :
       cl = [h |-> NewHeap,
             client |-> NewClient(maxHistoryStates),
             server |-> [maxHistoryStates |-> maxHistoryStates, currentState |-> None,
                         stateHistory |-> <<>>],
             clock |-> 1, held |-> None, loads |-> 0, captures |-> 0,
             mutations |-> 0, captured |-> <<>>, delivered |-> <<>>,
             serverCalls |-> <<>>, cacheCall |-> None]
  /\ ClOthersInit

\* held = await client.captureState()
ClCaptureStateStep ==
  \E elements \in ClElementDicts, random \in ClRandoms :
    /\ cl.captures < MaxCaptures
    /\ \E r \in {ClientCaptureState(cl.h, cl.client, cl.clock, random, elements, None)} :
         cl' = [cl EXCEPT !.h = r.h, !.client = r.client, !.held = Some(r.ref),
                          !.clock = @ + 1, !.captures = @ + 1,
                          !.captured = Append(@, [version |-> r.h.states[r.ref].version,
                                                  content |-> Deref(r.h, r.ref)]),
                          !.serverCalls = <<>>, !.cacheCall = None]
    /\ UNCHANGED ClOthers

\* client.subscribeToStateChanges(update => server.processStateUpdate(update))
ClSubscribeStep ==
  /\ cl.client.subscribers = <<>>
  /\ cl' = [cl EXCEPT !.client = ClientSubscribe(@),
                      !.serverCalls = <<>>, !.cacheCall = None]
  /\ UNCHANGED ClOthers

\* server.processInitialState(held), or the same call with a copy of held
\* that went over the wire
ClProcessInitialStateStep ==
  \E byCopy \in BOOLEAN :
    /\ cl.held # None
    /\ cl.loads < MaxLoads
    /\ \E a \in {IF byCopy THEN RefJSONClone(cl.h, Val(cl.held))
                 ELSE [h |-> cl.h, ref |-> Val(cl.held)]} :
         cl' = [cl EXCEPT !.h = a.h,
                          !.server = BaseProcessInitialState(@, a.ref),
                          !.loads = @ + 1,
                          !.serverCalls = <<>>, !.cacheCall = None]
    /\ UNCHANGED ClOthers

\* The mutation observer calls handleDomMutations(mutations)
ClHandleDomMutationsStep ==
  \E mutations \in ClMutationLists, random \in ClRandoms :
    /\ cl.mutations < MaxMutations
    /\ \E r \in {ClientHandleDomMutations(cl.h, cl.client, cl.server, cl.clock,
                                          random, mutations)} :
         cl' = [cl EXCEPT !.h = r.h, !.client = r.client, !.server = r.server,
                          !.clock = @ + 1, !.mutations = @ + 1,
                          !.delivered =
                            IF IsSome(r.update) /\ Len(cl.client.subscribers) > 0
                            THEN Append(@, [update |-> Val(r.update),
                                            content |-> Val(r.content)])
                            ELSE @,
                          !.serverCalls = r.serverCalls, !.cacheCall = r.cacheCall]
    /\ UNCHANGED ClOthers

ClNext ==
  \/ ClCaptureStateStep
  \/ ClSubscribeStep
  \/ ClProcessInitialStateStep
  \/ ClHandleDomMutationsStep

SpecClient == ClInit /\ [][ClNext]_vars

\* What getStateByVersion(version) of the client's cache returns, the usage
\* counts set aside: an optional address
ClServed(version) ==
  LET timestamp == MLookup(cl.client.stateCache.versionToTimestamp, version)
  IN IF timestamp = None THEN None
     ELSE MLookup(cl.client.stateCache.stateCache.cache,
                  getStateKeyFromParts(Val(timestamp), version))

\* C12: after addState(s), called directly or through captureState, the
\* snapshot served by getStateByVersion(s.version) stays structurally equal
\* to s as it was when added, whatever operations follow, until that entry
\* is evicted.
C12_CachedSnapshotIsImmutable ==
  \A i \in 1..Len(cl.captured) :
    IsSome(ClServed(cl.captured[i].version)) =>
      StructurallyEqual(Deref(cl.h, Val(ClServed(cl.captured[i].version))),
                        cl.captured[i].content)

\* The calls of applyUpdate, of the server and of the cache, that the last
\* handler made and that returned a new state
ClApplyCalls ==
  {cl.serverCalls[i] : i \in 1..Len(cl.serverCalls)}
  \cup (IF IsSome(cl.cacheCall) THEN {Val(cl.cacheCall)} ELSE {})

\* C13: after UIStateCache.applyUpdate or BaseMCPServer.processStateUpdate
\* succeeds, the base snapshot is structurally equal to what it was before
\* the call, and the result is a distinct value.
C13_PatchLeavesItsBaseAlone ==
  \A call \in ClApplyCalls :
    /\ StructurallyEqual(call.after, call.before)
    /\ call.result # call.base

\* The last handler made the server and the cache apply an update that
\* changes their base: the new state differs from the base
C13_Witness ==
  /\ Len(cl.serverCalls) > 0
  /\ IsSome(cl.cacheCall)
  /\ \A call \in ClApplyCalls :
       ~StructurallyEqual(Deref(cl.h, call.result), call.before)

\* C14: once a DifferentialUpdate has been produced and delivered to
\* subscribers, no later operation (applying it, applying later patches to
\* the client's or the server's state) changes its added, modified or
\* removed content.
C14_DeliveredPatchIsImmutable ==
  \A i \in 1..Len(cl.delivered) :
    DerefUpdate(cl.h, cl.delivered[i].update) = cl.delivered[i].content

(***************************************************************************)
(* SpecPatch: a patch applied to a snapshot by UIStateCache.applyUpdate    *)
(* and by BaseMCPServer.applyUpdate                                        *)
(***************************************************************************)
\* An element that a patch adds
PatchLink == Element("link", "a", Some("More"), None, Some(TRUE))

\* The base snapshots: a button with two attributes and a child, and a label
PatchBases ==
  {[UIState("v1", 1,
            <<<<"btn", [ElBtn EXCEPT !.attributes = Some(<<<<"k", "1">>, <<"j", "2">>>>),
                                     !.children = Some(<<"label">>)]>>,
              <<"label", ElLabel>>>>,
            focus) EXCEPT !.hover = hover] :
     focus \in {None, Some("btn")}, hover \in {None, Some("label")}}

\* The added maps: none, a new element, an element under an id of the base,
\* an element whose id is the empty string
PatchAdded ==
  {None,
   Some(<<<<"link", PatchLink>>>>),
   Some(<<<<"btn", [ElBtn EXCEPT !.type = "link", !.text = None]>>>>),
   Some(<<<<"", ElEmptyId>>>>)}

\* The modified maps: of an element of the base, of an added element, of an
\* id that is nowhere, with a property set to undefined, with two entries
PatchModified ==
  {None,
   Some(<<<<"btn", <<<<"text", Some("Submit")>>>>>>>>),
   Some(<<<<"btn", <<<<"attributes", Some(<<<<"k", "2">>>>)>>>>>>>>),
   Some(<<<<"ghost", <<<<"text", Some("Hi")>>>>>>>>),
   Some(<<<<"link", <<<<"text", Some("Less")>>>>>>>>),
   Some(<<<<"btn", <<<<"text", None>>>>>>>>),
   Some(<<<<"", <<<<"text", Some("Submit")>>>>>>>>),
   Some(<<<<"btn", <<<<"text", Some("Submit")>>, <<"children", Some(<<>>)>>>>>>,
          <<"label", <<<<"visible", Some(FALSE)>>>>>>>>)}

\* The removed lists
PatchRemoved ==
  {None, Some(<<"btn">>), Some(<<"link">>), Some(<<"ghost", "label">>), Some(<<"">>)}

\* The patches
PatchUpdates ==
  {Update("v1", "v2", 2, added, modified, removed, focus, hover) :
     added \in PatchAdded, modified \in PatchModified, removed \in PatchRemoved,
     focus \in {None, Some(Null), Some("label"), Some("")},
     hover \in {None, Some(Null), Some("btn")}}

\* The variables of the other specifications, which SpecPatch leaves alone
PatchOthers == <<lru, lruLast, sc, scLast, srv, srvLast, df, cx, cxLast, ch, cl, ec,
                 fl, nt, wv, hs>>
PatchOthersInit ==
  /\ lru = None
  /\ lruLast = None
  /\ sc = None
  /\ scLast = None
  /\ srv = None
  /\ srvLast = None
  /\ df = None
  /\ cx = None
  /\ cxLast = None
  /\ ch = None
  /\ cl = None
  /\ ec = None
  /\ fl = None
  /\ nt = None
  /\ wv = None
  /\ hs = None

PatchInit ==
  /\ \E base \in PatchBases : \E update \in PatchUpdates :
       pa = [base |-> base, update |-> update, viaCache |-> None, viaServer |-> None]
  /\ PatchOthersInit

\* cache = new UIStateCache(10); cache.addState(base);
\* viaCache = cache.applyUpdate(base.version, update)
PatchApplyInCacheStep ==
  /\ pa.viaCache = None
  /\ pa' = [pa EXCEPT !.viaCache =
              SCApplyUpdate(SCAddState(NewUIStateCache(DefaultCacheCapacity), pa.base),
                            pa.base.version, pa.update).result]
  /\ UNCHANGED PatchOthers

\* viaServer = BaseMCPServer.applyUpdate(base, update)
PatchApplyInServerStep ==
  /\ pa.viaServer = None
  /\ pa' = [pa EXCEPT !.viaServer = Some(ServerApplyUpdate(pa.base, pa.update))]
  /\ UNCHANGED PatchOthers

PatchNext ==
  \/ PatchApplyInCacheStep
  \/ PatchApplyInServerStep

SpecPatch == PatchInit /\ [][PatchNext]_vars

(***************************************************************************)
(* Claims about patch application, checked under SpecPatch                 *)
(***************************************************************************)
\* The snapshots that the two routines have returned
PaResults ==
  (IF IsSome(pa.viaCache) THEN {Val(pa.viaCache)} ELSE {})
  \cup (IF IsSome(pa.viaServer) THEN {Val(pa.viaServer)} ELSE {})

\* The properties of an element
PaElementFields == DOMAIN ElBtn

\* base.elements plus patch.added: the element under an id, if any
PaUnion(id) ==
  IF MHas(DfEntries(pa.update.added), id)
  THEN Some(MGet(DfEntries(pa.update.added), id))
  ELSE MLookup(pa.base.elements, id)

\* The element with a partial merged field by field
PaMerged(element, partial) ==
  [field \in PaElementFields |->
     IF MHas(partial, field) THEN MGet(partial, field) ELSE element[field]]

\* The element that the claimed semantics puts under an id, if any
PaExpected(id) ==
  IF id \in {DfEntries(pa.update.removed)[i] : i \in 1..Len(DfEntries(pa.update.removed))}
     \/ PaUnion(id) = None
  THEN None
  ELSE IF MHas(DfEntries(pa.update.modified), id)
  THEN Some(PaMerged(Val(PaUnion(id)), MGet(DfEntries(pa.update.modified), id)))
  ELSE PaUnion(id)

\* Every id that the snapshot or the patch names
PaIds ==
  MKeySet(pa.base.elements) \cup MKeySet(DfEntries(pa.update.added))
  \cup MKeySet(DfEntries(pa.update.modified))
  \cup {DfEntries(pa.update.removed)[i] : i \in 1..Len(DfEntries(pa.update.removed))}

\* C23: the result's elements are base.elements plus patch.added, with each
\* id in patch.modified that exists there merged field by field (a field
\* present in the partial replaces the whole previous value, a field absent
\* from the partial keeps its base value, a modified id that exists neither
\* in base nor in added is ignored), and finally every id in patch.removed
\* deleted.
C23_ElementSemanticsOfPatching ==
  \A result \in PaResults :
    /\ MKeySet(result.elements) \subseteq PaIds
    /\ Cardinality(MKeySet(result.elements)) = Len(result.elements)
    /\ \A id \in PaIds : MLookup(result.elements, id) = PaExpected(id)

\* Both routines have applied a patch that adds an element, replaces the
\* attributes of an element of the base and removes an id
C23_Witness ==
  /\ IsSome(pa.viaCache)
  /\ IsSome(pa.viaServer)
  /\ IsSome(pa.update.added)
  /\ IsSome(pa.update.removed)
  /\ IsSome(pa.update.modified)
  /\ MHas(Val(pa.update.modified), "btn")
  /\ MHas(MGet(Val(pa.update.modified), "btn"), "attributes")
  /\ MHas(Val(pa.viaCache).elements, "btn")

\* The focus or hover that the claimed semantics gives the result
PaPointer(basePointer, patchPointer) ==
  IF patchPointer = None THEN basePointer
  ELSE IF Val(patchPointer) = Null THEN None
  ELSE patchPointer

\* C24: when the patch has a focus field (an id or an explicit null) the
\* result's focus is that id, or absent for null; when the patch has no focus
\* field the result's focus is the base's focus; the same holds independently
\* for hover.
C24_FocusAndHoverOfPatching ==
  \A result \in PaResults :
    /\ result.focus = PaPointer(pa.base.focus, pa.update.focus)
    /\ result.hover = PaPointer(pa.base.hover, pa.update.hover)

(***************************************************************************)
(* ElementCache                                                            *)
(***************************************************************************)
\* new ElementCache(capacity): the elementCache field
NewElementCache(capacity) == NewLRU(capacity)

\* addElement(element)
ECAddElement(c, element) == LRUSet(c, element.id, element)

\* getElementById(id): [c, result]
ECGetElementById(c, id) == LRUGet(c, id)

RECURSIVE ECAddElementsFrom(_, _, _)
ECAddElementsFrom(c, elements, i) ==
  IF i > Len(elements) THEN c
  ELSE ECAddElementsFrom(ECAddElement(c, elements[i][2]), elements, i + 1)

\* addElements(elements): addElement for each entry of Object.entries(elements)
ECAddElements(c, elements) == ECAddElementsFrom(c, elements, 1)

\* removeElement(id): [c, result]
ECRemoveElement(c, id) == LRUDelete(c, id)

\* clear()
ECClear(c) == LRUClear(c)

\* size()
ECSize(c) == LRUSize(c)

(***************************************************************************)
(* SpecCaches: one cache, an ElementCache or a UIStateCache, driven by     *)
(* arbitrary calls. Beside it runs a twin: a cache of the same capacity    *)
(* that is built anew whenever the cache is cleared and that receives the  *)
(* same calls.                                                             *)
(***************************************************************************)
EcIds == {"", "a", "b", "c"}

\* The element with a given id
EcElement(id) == Element(id, "button", None, None, None)

\* The arguments of addElements: two elements with distinct ids
EcElementDicts ==
  {<<<<ids[1], EcElement(ids[1])>>, <<ids[2], EcElement(ids[2])>>>> :
     ids \in {pair \in EcIds \X EcIds : pair[1] # pair[2]}}

\* The variables of the other specifications, which SpecCaches leaves alone
EcOthers == <<lru, lruLast, sc, scLast, srv, srvLast, df, cx, cxLast, ch, cl, pa,
              fl, nt, wv, hs>>
EcOthersInit ==
  /\ lru = None
  /\ lruLast = None
  /\ sc = None
  /\ scLast = None
  /\ srv = None
  /\ srvLast = None
  /\ df = None
  /\ cx = None
  /\ cxLast = None
  /\ ch = None
  /\ cl = None
  /\ pa = None
  /\ fl = None
  /\ nt = None
  /\ wv = None
  /\ hs = None

\* kind: the class of the cache. inserted: while onlyInserts holds, the ids
\* handed to addElement and addElements since the cache was built, in order.
\* onlyInserts: no call but addElement and addElements of ids not inserted
\* before has been made. cleared: clear has been called. last: the last call.
EcInit ==
  /\ \/ \E n \in 0..MaxCap :
          ec = [kind |-> "ElementCache", cache |-> NewElementCache(n),
                twin |-> NewElementCache(n), inserted |-> <<>>,
                onlyInserts |-> TRUE, cleared |-> FALSE, last |-> "new"]
     \/ \E n \in 1..MaxCap :
          ec = [kind |-> "UIStateCache", cache |-> NewUIStateCache(n),
                twin |-> NewUIStateCache(n), inserted |-> <<>>,
                onlyInserts |-> FALSE, cleared |-> FALSE, last |-> "new"]
  /\ EcOthersInit

EcNewIds(ids) ==
  /\ ec.onlyInserts
  /\ \A i \in 1..Len(ids) : \A j \in 1..Len(ec.inserted) : ids[i] # ec.inserted[j]

EcAddElementStep ==
  \E id \in EcIds :
    /\ ec.kind = "ElementCache"
    /\ ec.cache.accessCounter < MaxAccess
    /\ ec' = [ec EXCEPT !.cache = ECAddElement(@, EcElement(id)),
                         !.twin = ECAddElement(@, EcElement(id)),
                         !.onlyInserts = EcNewIds(<<id>>),
                         !.inserted = IF EcNewIds(<<id>>) THEN Append(@, id) ELSE <<>>,
                         !.last = "addElement"]
    /\ UNCHANGED EcOthers

EcAddElementsStep ==
  \E elements \in EcElementDicts :
    /\ ec.kind = "ElementCache"
    /\ ec.cache.accessCounter + 1 < MaxAccess
    /\ ec' = [ec EXCEPT !.cache = ECAddElements(@, elements),
                         !.twin = ECAddElements(@, elements),
                         !.onlyInserts = EcNewIds(MKeys(elements)),
                         !.inserted = IF EcNewIds(MKeys(elements))
                                      THEN @ \o MKeys(elements) ELSE <<>>,
                         !.last = "addElements"]
    /\ UNCHANGED EcOthers

EcGetElementByIdStep ==
  \E id \in EcIds :
    /\ ec.kind = "ElementCache"
    /\ ec.cache.accessCounter < MaxAccess
    /\ ec' = [ec EXCEPT !.cache = ECGetElementById(@, id).c,
                         !.twin = ECGetElementById(@, id).c,
                         !.onlyInserts = FALSE,
                         !.inserted = <<>>,
                         !.last = "getElementById"]
    /\ UNCHANGED EcOthers

EcRemoveElementStep ==
  \E id \in EcIds :
    /\ ec.kind = "ElementCache"
    /\ ec' = [ec EXCEPT !.cache = ECRemoveElement(@, id).c,
                         !.twin = ECRemoveElement(@, id).c,
                         !.onlyInserts = FALSE,
                         !.inserted = <<>>,
                         !.last = "removeElement"]
    /\ UNCHANGED EcOthers

\* ElementCache.clear(); the twin is built anew
EcClearElementsStep ==
  /\ ec.kind = "ElementCache"
  /\ ec' = [ec EXCEPT !.cache = ECClear(@),
                       !.twin = NewElementCache(ec.cache.capacity),
                       !.onlyInserts = TRUE,
                       !.inserted = <<>>,
                       !.cleared = TRUE,
                       !.last = "clear"]
  /\ UNCHANGED EcOthers

EcAddStateStep ==
  \E state \in CacheStates :
    /\ ec.kind = "UIStateCache"
    /\ ec.cache.stateCache.accessCounter < MaxCacheAccess
    /\ ec' = [ec EXCEPT !.cache = SCAddState(@, state),
                         !.twin = SCAddState(@, state),
                         !.last = "addState"]
    /\ UNCHANGED EcOthers

EcGetStateByVersionStep ==
  \E version \in CacheVersions :
    /\ ec.kind = "UIStateCache"
    /\ ec.cache.stateCache.accessCounter < MaxCacheAccess
    /\ ec' = [ec EXCEPT !.cache = SCGetStateByVersion(@, version).c,
                         !.twin = SCGetStateByVersion(@, version).c,
                         !.last = "getStateByVersion"]
    /\ UNCHANGED EcOthers

\* UIStateCache.clear(); the twin is built anew
EcClearStatesStep ==
  /\ ec.kind = "UIStateCache"
  /\ ec' = [ec EXCEPT !.cache = SCClear(@),
                       !.twin = NewUIStateCache(ec.cache.stateCache.capacity),
                       !.cleared = TRUE,
                       !.last = "clear"]
  /\ UNCHANGED EcOthers

EcNext ==
  \/ EcAddElementStep
  \/ EcAddElementsStep
  \/ EcGetElementByIdStep
  \/ EcRemoveElementStep
  \/ EcClearElementsStep
  \/ EcAddStateStep
  \/ EcGetStateByVersionStep
  \/ EcClearStatesStep

SpecCaches == EcInit /\ [][EcNext]_vars

(***************************************************************************)
(* Claims about the caches, checked under SpecCaches                       *)
(***************************************************************************)
\* getElementById(id) finds an element
EcFound(c, id) == IsSome(ECGetElementById(c, id).result)

\* The last n entries of a sequence
EcLast(s, n) == {s[i] : i \in {j \in 1..Len(s) : j > Len(s) - n}}

\* C26: in an ElementCache of capacity N, after inserting more than N
\* elements with distinct ids (one by one or in bulk with addElements) and
\* no lookups in between, exactly the N most recently inserted ids are found
\* by getElementById and every earlier id is reported not found.
C26_ElementCacheEviction ==
  (ec.kind = "ElementCache" /\ ec.onlyInserts
   /\ Len(ec.inserted) > ec.cache.capacity) =>
    \A id \in EcIds :
      EcFound(ec.cache, id) <=> id \in EcLast(ec.inserted, ec.cache.capacity)

\* C27: immediately after UIStateCache.clear() size() is 0 and
\* getStateByVersion of every version and getMostRecentState report not
\* found; immediately after ElementCache.clear() size() is 0 and
\* getElementById of every id reports not found; entries added after a clear
\* are evicted in the same order as in a fresh cache, so that the cache and a
\* cache built at the time of the clear hold the same entries after the same
\* calls.
C27_ClearingIsTotal ==
  /\ ec.kind = "UIStateCache" =>
       /\ ec.last = "clear" =>
            /\ SCSize(ec.cache) = 0
            /\ \A version \in CacheVersions :
                 SCGetStateByVersion(ec.cache, version).result = None
            /\ SCGetMostRecentState(ec.cache).result = None
       /\ SCSize(ec.cache) = SCSize(ec.twin)
       /\ \A version \in CacheVersions :
            SCGetStateByVersion(ec.cache, version).result
              = SCGetStateByVersion(ec.twin, version).result
       /\ SCGetMostRecentState(ec.cache).result = SCGetMostRecentState(ec.twin).result
  /\ ec.kind = "ElementCache" =>
       /\ ec.last = "clear" =>
            /\ ECSize(ec.cache) = 0
            /\ \A id \in EcIds : ~EcFound(ec.cache, id)
       /\ ECSize(ec.cache) = ECSize(ec.twin)
       /\ \A id \in EcIds :
            ECGetElementById(ec.cache, id).result = ECGetElementById(ec.twin, id).result

\* An ElementCache of capacity 2 was cleared, and since
\* then three elements with distinct ids were added, so that one was evicted
C27_Witness ==
  /\ ec.kind = "ElementCache"
  /\ ec.cleared
  /\ ec.cache.capacity = 2
  /\ ec.onlyInserts
  /\ Len(ec.inserted) = 3
  /\ ECSize(ec.cache) = 2

(***************************************************************************)
(* The OpenAI server of src/server/openai-server.ts: a BaseMCPServer       *)
(* without a state cache, whose prepareContextForModel cuts the base       *)
(* context to maxTokens                                                    *)
(***************************************************************************)
\* The server after construction and initialize(config). calls counts the
\* snapshots it was given.
NewOlderServer(config) ==
  [maxHistoryStates |-> config.maxHistoryStates,
   includeFullElementDetails |-> config.includeFullElementDetails,
   maxTokens |-> IF IsSome(config.maxTokens) THEN Val(config.maxTokens)
                 ELSE DefaultMaxTokens,
   currentState |-> None,
   stateHistory |-> <<>>,
   calls |-> 0]

\* estimateTokenCount(value): Math.ceil(json.length / 4)
OlderEstimateTokenCount(state) == CeilQuarter(Len(JSimplifiedState(state)))

\* One round of the loop over sortedElementIds; kept is
\* [newElements, currentTokenCount]
OlderKeepElement(kept, id, element, maxTokens) ==
  IF kept.currentTokenCount - ElementTokens(element) < maxTokens
  THEN [newElements |-> MPut(kept.newElements, id, element),
        currentTokenCount |-> kept.currentTokenCount - ElementTokens(element)]
  ELSE kept

RECURSIVE OlderKeepElementsFrom(_, _, _, _, _)
\* The loop over sortedElementIds, from its i-th round on
OlderKeepElementsFrom(elements, sortedElementIds, i, kept, maxTokens) ==
  IF i > Len(sortedElementIds) THEN kept
  ELSE Only({OlderKeepElementsFrom(elements, sortedElementIds, i + 1, next, maxTokens) :
             next \in {OlderKeepElement(kept, sortedElementIds[i],
                                        MGet(elements, sortedElementIds[i]),
                                        maxTokens)}})

\* The context with the elements newElements and the estimate of its state
OlderContextWithElements(context, newElements) ==
  Only({[context EXCEPT !.uiState = uiState,
                         !.tokenCount = OlderEstimateTokenCount(uiState)] :
        uiState \in {[context.uiState EXCEPT !.elements = newElements]}})

\* simplifyContextForTokenLimit(context, maxTokens)
OlderSimplifyContextForTokenLimit(context, maxTokens) ==
  OlderContextWithElements(
    context,
    OlderKeepElementsFrom(context.uiState.elements,
                          SortByImportance(context.uiState.elements), 1,
                          [newElements |-> <<>>,
                           currentTokenCount |-> context.tokenCount],
                          maxTokens).newElements)

\* prepareContextForModel(options): [s, context (none when it threw), threw]
OlderPrepareContextForModel(s, options) ==
  IF s.currentState = None
  THEN [s |-> s, context |-> None, threw |-> TRUE]
  ELSE Only({[s |-> s,
              context |-> Some(IF baseContext.tokenCount
                                    > Coalesce(options.maxTokens, s.maxTokens)
                               THEN OlderSimplifyContextForTokenLimit(
                                      baseContext,
                                      Coalesce(options.maxTokens, s.maxTokens))
                               ELSE baseContext),
              threw |-> FALSE] :
             baseContext \in {BasePrepareContextForModel(s, options)}})

(***************************************************************************)
(* SpecOlder: the server of src/server/openai-server.ts is given snapshots *)
(* and asked for contexts                                                  *)
(***************************************************************************)
OlderInit ==
  /\ \E config \in CompactConfigs : cx = NewOlderServer(config)
  /\ cxLast = CxCall("new", None, None, cx, None, FALSE)
  /\ CxOthersInit

\* processInitialState(state), inherited from BaseMCPServer
OlderProcessInitialStateStep ==
  \E state \in CompactStates :
    /\ cx.calls < MaxLoads
    /\ cx' = [BaseProcessInitialState(cx, state) EXCEPT !.calls = cx.calls + 1]
    /\ cxLast' = CxCall("processInitialState", Some(state), None, cx, None, FALSE)
    /\ UNCHANGED CxOthers

OlderPrepareContextForModelStep ==
  \E options \in CompactOptions :
    /\ \E r \in {OlderPrepareContextForModel(cx, options)} :
         /\ cx' = r.s
         /\ cxLast' = CxCall("prepareContextForModel", None, Some(options), cx,
                             r.context, r.threw)
    /\ UNCHANGED CxOthers

OlderNext ==
  \/ OlderProcessInitialStateStep
  \/ OlderPrepareContextForModelStep

SpecOlder == OlderInit /\ [][OlderNext]_vars

\* The base context of the last call
OlderBase == BasePrepareContextForModel(cxLast.pre, Val(cxLast.options))

\* C29: for the OpenAI server of src/server/openai-server.ts, whenever the
\* base context exceeds maxTokens, and maxTokens is at least the cost of the
\* state with no elements, the context returned by prepareContextForModel
\* after simplifyContextForTokenLimit has a tokenCount of at most maxTokens.
C29_OlderBudgetSafety ==
  (/\ CxReturned
   /\ OlderBase.tokenCount > CxMaxTokens
   /\ CxMaxTokens >= OlderEstimateTokenCount([OlderBase.uiState EXCEPT !.elements = <<>>]))
  => Val(cxLast.context).tokenCount <= CxMaxTokens

(***************************************************************************)
(* SpecFilter: filterElements and compressState called on a snapshot       *)
(***************************************************************************)
\* An input without text and a container below the button
FlInput == Element("input", "input", None, None, Some(TRUE))
FlDiv == [Element("div", "div", None, None, None) EXCEPT !.parent = Some("btn")]
\* A label of white space, and a second label with the text of the first
FlBlank == Element("blank", "label", Some(" "), None, None)
FlName == Element("name", "label", Some("Name"), None, None)
\* A button that states every default, and a label that states none of them
FlPlain ==
  [Element("btn", "button", Some(""),
           Some(Bounds(Whole(0), Whole(3), Whole(10), Whole(10))), Some(FALSE))
     EXCEPT !.attributes = Some(<<>>), !.styles = Some(<<>>),
            !.children = Some(<<>>), !.visible = Some(TRUE)]
FlRich ==
  [Element("label", "label", Some("Name"),
           Some(Bounds(Whole(1), Whole(2), Whole(4), Whole(0))), Some(TRUE))
     EXCEPT !.attributes = Some(<<<<"k", "1">>>>), !.styles = Some(<<<<"color", "red">>>>),
            !.children = Some(<<"btn">>), !.visible = Some(FALSE)]
\* A button whose bounds are no integers
FlHalves ==
  [ElBtn EXCEPT !.bounds = Some(Bounds(AndAHalf(1), Whole(2), AndAHalf(10), Whole(4)))]

\* The element dictionaries of the snapshots
FlElementDicts ==
  {<<>>,
   <<<<"btn", ElBtn>>>>,
   <<<<"div", FlDiv>>, <<"label", ElLabel>>, <<"btn", ElBtn>>>>,
   <<<<"btn", ElBtn>>, <<"label", ElLabel>>, <<"input", FlInput>>, <<"div", FlDiv>>>>,
   <<<<"js", ElScript>>, <<"label", [ElLabel EXCEPT !.visible = Some(FALSE)]>>,
     <<"div", FlDiv>>, <<"btn", ElBtn>>>>,
   <<<<"label", ElLabel>>, <<"blank", FlBlank>>, <<"name", FlName>>,
     <<"btn", ElBtn>>, <<"input", FlInput>>>>,
   <<<<"btn", FlPlain>>, <<"label", FlRich>>>>,
   <<<<"label", FlRich>>, <<"btn", FlHalves>>>>}

FlStates == {UIState("v1", 1, elements, None) : elements \in FlElementDicts}

\* The options handed to filterElements
FlOptions ==
  {FilterOptions(maxElements, prioritizeInteractable, prioritizeVisible,
                 excludeTypes, includeTypes) :
     maxElements \in {None, Some(0), Some(1), Some(2), Some(3)},
     prioritizeInteractable \in BOOLEAN,
     prioritizeVisible \in BOOLEAN,
     excludeTypes \in {None, Some({}), Some({"script", "label"})},
     includeTypes \in {None, Some({"label", "div"}), Some({"button"})}}

\* The variables of the other specifications, which SpecFilter leaves alone
FlOthers == <<lru, lruLast, sc, scLast, srv, srvLast, df, cx, cxLast, ch, cl, pa, ec, nt, wv, hs>>
FlOthersInit ==
  /\ lru = None
  /\ lruLast = None
  /\ sc = None
  /\ scLast = None
  /\ srv = None
  /\ srvLast = None
  /\ df = None
  /\ cx = None
  /\ cxLast = None
  /\ ch = None
  /\ cl = None
  /\ pa = None
  /\ ec = None
  /\ nt = None
  /\ wv = None
  /\ hs = None

FlInit ==
  /\ \E state \in FlStates : \E options \in FlOptions :
       \E made \in {AllocState(NewHeap, state)} :
         fl = [state |-> state, options |-> options, filtered |-> None,
               heap |-> made.h, input |-> made.ref,
               compressed |-> None, twice |-> None]
  /\ FlOthersInit

\* filtered = filterElements(state, options)
FlFilterElementsStep ==
  /\ fl.filtered = None
  /\ fl' = [fl EXCEPT !.filtered = Some(filterElements(fl.state, fl.options))]
  /\ UNCHANGED FlOthers

\* compressed = compressState(input), the snapshot object built by Init
FlCompressStateStep ==
  /\ fl.compressed = None
  /\ \E made \in {RefCompressState(fl.heap, fl.input)} :
       fl' = [fl EXCEPT !.heap = made.h, !.compressed = Some(made.ref)]
  /\ UNCHANGED FlOthers

\* twice = compressState(compressed)
FlCompressAgainStep ==
  /\ IsSome(fl.compressed)
  /\ fl.twice = None
  /\ \E made \in {RefCompressState(fl.heap, Val(fl.compressed))} :
       fl' = [fl EXCEPT !.heap = made.h, !.twice = Some(made.ref)]
  /\ UNCHANGED FlOthers

FlNext ==
  \/ FlFilterElementsStep
  \/ FlCompressStateStep
  \/ FlCompressAgainStep

SpecFilter == FlInit /\ [][FlNext]_vars

\* The types of the include list and of the exclude list of the call; a list
\* that is absent or empty does not filter
FlIncludeTypes == IF IsSome(fl.options.includeTypes) THEN Val(fl.options.includeTypes) ELSE {}
FlExcludeTypes == IF IsSome(fl.options.excludeTypes) THEN Val(fl.options.excludeTypes) ELSE {}

\* C30: an element whose type is on filterElements' include list is present
\* in the output regardless of its score: it is not removed by the
\* maxElements cut even when more than maxElements elements qualify.
C30_ForcedInclusionByType ==
  IsSome(fl.filtered) =>
    \A i \in 1..Len(fl.state.elements) :
      (/\ fl.state.elements[i][2].type \in FlIncludeTypes
       /\ fl.state.elements[i][2].type \notin FlExcludeTypes)
      => MHas(Val(fl.filtered).elements, fl.state.elements[i][1])

(***************************************************************************)
(* The ranking of filterElements                                           *)
(***************************************************************************)
\* The input elements that pass the type lists of the call, by their index
FlQualifying ==
  {i \in 1..Len(fl.state.elements) :
     /\ (FlIncludeTypes # {} => fl.state.elements[i][2].type \in FlIncludeTypes)
     /\ fl.state.elements[i][2].type \notin FlExcludeTypes}

FlInteractable(element) == element.interactable = Some(TRUE)
FlVisible(element) == element.visible # Some(FALSE)
FlHasText(element) == IsSome(element.text) /\ HasVisibleText(Val(element.text))

\* The place of an id in the output, 0 when the output does not hold it
FlPlace(id) ==
  LET out == Val(fl.filtered).elements
  IN IF MHas(out, id) THEN CHOOSE k \in 1..Len(out) : out[k][1] = id ELSE 0

\* The input element at i is ranked ahead of the one at j
FlRankedAhead(i, j) ==
  LET a == fl.state.elements[i][2]
      b == fl.state.elements[j][2]
  IN \/ fl.options.prioritizeInteractable /\ FlInteractable(a) /\ ~FlInteractable(b)
     \/ /\ FlInteractable(a) = FlInteractable(b)
        /\ FlVisible(a) = FlVisible(b)
        /\ FlHasText(a) /\ ~FlHasText(b)
     \/ /\ i < j
        /\ calculateElementScore(a, fl.options) = calculateElementScore(b, fl.options)

\* C31: with prioritizeInteractable set every interactable element comes
\* ahead of every non-interactable one; among elements equal in
\* interactability and visibility one with non-empty trimmed text comes ahead
\* of one without; elements of equal score keep their order of the input. An
\* element that is in the output has every element ranked ahead of it in the
\* output too, at an earlier place, so the maxElements cut keeps the earliest.
C31_RelevanceRanking ==
  IsSome(fl.filtered) =>
    \A i \in FlQualifying : \A j \in FlQualifying :
      (FlRankedAhead(i, j) /\ FlPlace(fl.state.elements[j][1]) # 0)
      => /\ FlPlace(fl.state.elements[i][1]) # 0
         /\ FlPlace(fl.state.elements[i][1]) < FlPlace(fl.state.elements[j][1])

\* filterElements has cut a snapshot with prioritizeInteractable set: of two
\* elements of equal score the earlier one is kept and the later one is cut,
\* and an interactable element stands ahead of an earlier element with text
C31_Witness ==
  /\ IsSome(fl.filtered)
  /\ fl.options.prioritizeInteractable
  /\ \E i \in FlQualifying : \E j \in FlQualifying :
       /\ i < j
       /\ calculateElementScore(fl.state.elements[i][2], fl.options)
          = calculateElementScore(fl.state.elements[j][2], fl.options)
       /\ FlPlace(fl.state.elements[i][1]) # 0
       /\ FlPlace(fl.state.elements[j][1]) = 0
  /\ \E i \in FlQualifying : \E j \in FlQualifying :
       /\ i < j
       /\ ~FlInteractable(fl.state.elements[i][2])
       /\ FlHasText(fl.state.elements[i][2])
       /\ FlInteractable(fl.state.elements[j][2])
       /\ ~FlHasText(fl.state.elements[j][2])
       /\ FlPlace(fl.state.elements[j][1]) # 0

(***************************************************************************)
(* compressState and the fingerprint                                       *)
(***************************************************************************)
\* The snapshots behind the results of the two calls of compressState
FlCompressed == Deref(fl.heap, Val(fl.compressed))
FlTwice == Deref(fl.heap, Val(fl.twice))

\* The bounds of an element, when it has them, are integers
FlIntegerBounds(element) ==
  IsSome(element.bounds) =>
    /\ Val(element.bounds).x % 2 = 0
    /\ Val(element.bounds).y % 2 = 0
    /\ Val(element.bounds).width % 2 = 0
    /\ Val(element.bounds).height % 2 = 0

\* C32: compressState keeps the fingerprint of every element with integer
\* bounds, so that computeDiff between a snapshot and its compressed form
\* reports no such element as modified; compressState applied to its own
\* result returns an equal snapshot; and the snapshot object handed to
\* compressState still holds what it held before the call.
C32_NormalizationIsLosslessAndIdempotent ==
  IsSome(fl.compressed) =>
    /\ Deref(fl.heap, fl.input) = fl.state
    /\ MKeys(FlCompressed.elements) = MKeys(fl.state.elements)
    /\ \A i \in 1..Len(fl.state.elements) :
         FlIntegerBounds(fl.state.elements[i][2])
         => /\ hashElement(FlCompressed.elements[i][2])
               = hashElement(fl.state.elements[i][2])
            /\ ~MHas(DfEntries(computeDiff(fl.state, FlCompressed).modified),
                     fl.state.elements[i][1])
    /\ IsSome(fl.twice) => FlTwice = FlCompressed

\* compressState has run twice on a snapshot with an element of integer
\* bounds that states defaults, which the first run has removed
C32_Witness ==
  /\ IsSome(fl.compressed)
  /\ IsSome(fl.twice)
  /\ \E i \in 1..Len(fl.state.elements) :
       /\ FlIntegerBounds(fl.state.elements[i][2])
       /\ IsSome(fl.state.elements[i][2].bounds)
       /\ fl.state.elements[i][2].text = Some("")
       /\ fl.state.elements[i][2].visible = Some(TRUE)
       /\ FlCompressed.elements[i][2].text = None
       /\ FlCompressed.elements[i][2].visible = None

(***************************************************************************)
(* Budgets that cannot be met                                              *)
(***************************************************************************)
\* The interactable elements of the state that the loop of the last call
\* walks, each in its short form
CxProjections ==
  LET Interactable(entry) == TruthyBoolean(entry[2].interactable)
      forced == SelectSeq(CxFiltered.elements, Interactable)
  IN [i \in 1..Len(forced) |-> <<forced[i][1], SimplifiedElement(forced[i][2])>>]

\* The last call had to cut, and the state with nothing but the short forms
\* of its interactable elements is estimated above the limit
CxUnsatisfiable ==
  /\ CxCut
  /\ estimateTokenCount([CxFiltered EXCEPT !.elements = CxProjections]) > CxMaxTokens

\* A context without its elements and its tokenCount
CxBesidesElements(context) ==
  [context EXCEPT !.uiState.elements = <<>>, !.tokenCount = 0]

\* C33: when prepareContextForModel cannot fit the elements within maxTokens,
\* not even the short forms of the interactable ones, it does not throw and
\* the context it returns is marked: besides its elements and its tokenCount
\* it differs from the context the call returns when the budget suffices.
C33_UnsatisfiableBudgetsAreFlagged ==
  (cxLast.op = "prepareContextForModel" /\ IsSome(cxLast.pre.currentState)) =>
    /\ ~cxLast.threw
    /\ CxUnsatisfiable =>
         CxBesidesElements(Val(cxLast.context)) # CxBesidesElements(CxUncut)

(***************************************************************************)
(* The current state of the server and its snapshot cache                  *)
(***************************************************************************)
\* What the snapshot cache of the server returns for the version of the
\* current state
SrvCached == SCGetStateByVersion(srv.stateCache, Val(srv.currentState).version).result

\* C34: after any sequence of processInitialState and processStateUpdate
\* calls on the OpenAIMCPServer, its snapshot cache holds a snapshot for the
\* version of the current state, and that snapshot is structurally equal to
\* the current state.
C34_PatchPathsAgree ==
  IsSome(srv.currentState) =>
    /\ IsSome(SrvCached)
    /\ StructurallyEqual(Val(SrvCached), Val(srv.currentState))

\* Two updates in a row were applied, the second one to a state that the
\* first one had made; it changed the elements, and the cache is full
C34_Witness ==
  /\ srvLast.op = "processStateUpdate"
  /\ ~srvLast.threw
  /\ srv.calls = MaxServerCalls
  /\ Val(srv.currentState).elements # Val(srvLast.pre.currentState).elements
  /\ Val(srvLast.pre.currentState).version # "v1"
  /\ SCSize(srv.stateCache) = srv.stateCache.stateCache.capacity
  /\ IsSome(SrvCached)

(***************************************************************************)
(* The version index of UIStateCache                                       *)
(***************************************************************************)
\* The key under which the i-th entry of the version index expects its
\* snapshot
SCIndexedKey(i) ==
  getStateKeyFromParts(sc.versionToTimestamp[i][2], sc.versionToTimestamp[i][1])

\* C35: every version recorded in versionToTimestamp refers to a snapshot
\* that is resident in the store, so the index never holds more entries than
\* the capacity of the cache.
C35_IndexInStepWithStore ==
  /\ \A i \in 1..Len(sc.versionToTimestamp) : LRUHas(sc.stateCache, SCIndexedKey(i))
  /\ Len(sc.versionToTimestamp) <= sc.stateCache.capacity

(***************************************************************************)
(* SpecNotify: callbacks subscribe to a client and unsubscribe, also while *)
(* an update is being delivered                                            *)
(*                                                                         *)
(* A callback is known by its name. What a callback does when it is called *)
(* is chosen anew for each delivery: it returns, it throws, or it calls    *)
(* the unsubscribe of one subscription.                                    *)
(***************************************************************************)
MaxNotifies == 2    \* calls of notifySubscribers

NtCallbacks == {"a", "b", "c"}

\* What a callback may do when it is called: return, throw, or call the
\* unsubscribe of a subscription and return
NtBehaviours ==
  {[unsubscribes |-> None, throws |-> throws] : throws \in BOOLEAN}
  \cup {[unsubscribes |-> Some(c), throws |-> FALSE] : c \in NtCallbacks}

\* this.subscribers.indexOf(callback), counted from 1; 0 stands for -1
IndexOf(subscribers, callback) ==
  IF \E k \in 1..Len(subscribers) : subscribers[k] = callback
  THEN CHOOSE k \in 1..Len(subscribers) :
         /\ subscribers[k] = callback
         /\ \A j \in 1..(k - 1) : subscribers[j] # callback
  ELSE 0

\* this.subscribers.push(callback)
Subscribe(subscribers, callback) == Append(subscribers, callback)

\* unsubscribe(): index = indexOf(callback);
\* if (index !== -1) this.subscribers.splice(index, 1)
Unsubscribe(subscribers, callback) ==
  IF IndexOf(subscribers, callback) # 0
  THEN SubSeq(subscribers, 1, IndexOf(subscribers, callback) - 1)
       \o SubSeq(subscribers, IndexOf(subscribers, callback) + 1, Len(subscribers))
  ELSE subscribers

\* The call of one subscriber inside try and catch: n is [subscribers, log],
\* the log lists what happened during the delivery
CallSubscriber(n, callback, does) ==
  LET called == Append(n.log, <<"call", callback>>)
      done == IF IsSome(does.unsubscribes)
              THEN [subscribers |-> Unsubscribe(n.subscribers, Val(does.unsubscribes)),
                    log |-> Append(called, <<"unsubscribed", Val(does.unsubscribes)>>)]
              ELSE [subscribers |-> n.subscribers, log |-> called]
  IN IF does.throws THEN [done EXCEPT !.log = Append(@, <<"threw", callback>>)]
     ELSE done

RECURSIVE DeliverFrom(_, _, _)
\* for (const subscriber of this.subscribers): the iterator of the array
\* keeps a place and reads the array as it is when it moves on
DeliverFrom(n, i, behaviour) ==
  IF i > Len(n.subscribers) THEN n
  ELSE Only({DeliverFrom(next, i + 1, behaviour) :
             next \in {CallSubscriber(n, n.subscribers[i],
                                      behaviour[n.subscribers[i]])}})

\* BaseMCPClient.notifySubscribers(update): [subscribers, log, c, result]
BaseNotifySubscribers(subscribers, stateCache, update, behaviour) ==
  Only({Only({[subscribers |-> n.subscribers, log |-> n.log,
               c |-> r.c, result |-> r.result] :
              r \in {IF Truthy(update.baseVersion)
                     THEN SCApplyUpdate(stateCache, update.baseVersion, update)
                     ELSE [c |-> stateCache, result |-> None]}}) :
        n \in {DeliverFrom([subscribers |-> subscribers, log |-> <<>>], 1, behaviour)}})

\* The variables of the other specifications, which SpecNotify leaves alone
NtOthers == <<lru, lruLast, sc, scLast, srv, srvLast, df, cx, cxLast, ch, cl, pa, ec,
              fl, wv, hs>>
NtOthersInit ==
  /\ lru = None
  /\ lruLast = None
  /\ sc = None
  /\ scLast = None
  /\ srv = None
  /\ srvLast = None
  /\ df = None
  /\ cx = None
  /\ cxLast = None
  /\ ch = None
  /\ cl = None
  /\ pa = None
  /\ ec = None
  /\ fl = None
  /\ wv = None
  /\ hs = None

NtCall(op, start, log, update, pre, result) ==
  [op |-> op, start |-> start, log |-> log, update |-> update, pre |-> pre,
   result |-> result]

\* The client after construction: no subscribers, stateCache =
\* new UIStateCache(10), lastVersion = '0'
NtInit ==
  /\ nt = [subscribers |-> <<>>,
           stateCache |-> NewUIStateCache(DefaultCacheCapacity),
           lastVersion |-> "0", notifies |-> 0,
           last |-> NtCall("new", <<>>, <<>>, None, None, None)]
  /\ NtOthersInit

\* captureState(): the state is added to the cache and its version is kept
NtCaptureStateStep ==
  /\ nt.lastVersion = "0"
  /\ \E state \in {UIState("v1", 1, <<<<"btn", ElBtn>>>>, None)} :
       nt' = [nt EXCEPT !.stateCache = SCAddState(@, state),
                        !.lastVersion = state.version,
                        !.last = NtCall("captureState", <<>>, <<>>, None, None, None)]
  /\ UNCHANGED NtOthers

\* subscribeToStateChanges(callback)
NtSubscribeStep ==
  \E callback \in NtCallbacks :
    /\ IndexOf(nt.subscribers, callback) = 0
    /\ nt' = [nt EXCEPT !.subscribers = Subscribe(@, callback),
                        !.last = NtCall("subscribe", <<>>, <<>>, None, None, None)]
    /\ UNCHANGED NtOthers

\* subscription.unsubscribe(), called between deliveries
NtUnsubscribeStep ==
  \E callback \in NtCallbacks :
    /\ IndexOf(nt.subscribers, callback) # 0
    /\ nt' = [nt EXCEPT !.subscribers = Unsubscribe(@, callback),
                        !.last = NtCall("unsubscribe", <<>>, <<>>, None, None, None)]
    /\ UNCHANGED NtOthers

\* notifySubscribers(update), as handleDomMutations calls it: the update
\* leads from lastVersion to a new version
NtNotifySubscribersStep ==
  \E behaviour \in [NtCallbacks -> NtBehaviours] :
    \E body \in CacheUpdateBodies :
      /\ nt.lastVersion # "0"
      /\ nt.notifies < MaxNotifies
      /\ \E update \in {Update(nt.lastVersion, "v" \o ToString(nt.notifies + 2),
                                nt.notifies + 2, body.added, body.modified,
                                body.removed, body.focus, None)} :
           \E r \in {BaseNotifySubscribers(nt.subscribers, nt.stateCache, update,
                                           behaviour)} :
             nt' = [subscribers |-> r.subscribers, stateCache |-> r.c,
                    lastVersion |-> update.version, notifies |-> nt.notifies + 1,
                    last |-> NtCall("notifySubscribers", nt.subscribers, r.log,
                                    Some(update), nt.stateCache, r.result)]
      /\ UNCHANGED NtOthers

NtNext ==
  \/ NtCaptureStateStep
  \/ NtSubscribeStep
  \/ NtUnsubscribeStep
  \/ NtNotifySubscribersStep

SpecNotify == NtInit /\ [][NtNext]_vars

\* The number of times a callback was called during the last delivery
NtCalls(callback) ==
  Cardinality({k \in 1..Len(nt.last.log) : nt.last.log[k] = <<"call", callback>>})

\* An unsubscribe of the callback returned during the last delivery
NtUnsubscribed(callback) ==
  \E k \in 1..Len(nt.last.log) : nt.last.log[k] = <<"unsubscribed", callback>>

\* C36: when the client notifies its subscribers of an update, every
\* callback that is subscribed when the delivery starts and is not
\* unsubscribed during it receives the update exactly once, also when another
\* subscriber throws or unsubscribes during the delivery; no callback is
\* called after its unsubscribe has returned; and the update is applied to
\* the snapshot cache of the client whatever the subscribers do.
C36_DeliveryCompleteness ==
  nt.last.op = "notifySubscribers" =>
    /\ \A k \in 1..Len(nt.last.start) :
         ~NtUnsubscribed(nt.last.start[k]) => NtCalls(nt.last.start[k]) = 1
    /\ \A p \in 1..Len(nt.last.log) : \A q \in (p + 1)..Len(nt.last.log) :
         nt.last.log[p][1] = "unsubscribed"
         => nt.last.log[q] # <<"call", nt.last.log[p][2]>>
    /\ nt.last.result =
         Some(CacheApplyPatch(
                Val(SCGetStateByVersion(nt.last.pre, Val(nt.last.update).baseVersion).result),
                Val(nt.last.update)))
    /\ SCGetStateByVersion(nt.stateCache, Val(nt.last.update).version).result
         = nt.last.result

(***************************************************************************)
(* SpecVersions: a WebMCPClient whose captureState calls wait for their    *)
(* platform state while the mutation observer calls back                   *)
(*                                                                         *)
(* captureState builds its state and then awaits it: what follows the      *)
(* await runs later, after callbacks that were due before it. The calls    *)
(* under way resume in the order in which they began.                      *)
(***************************************************************************)
MaxPending == 2     \* calls of captureState in SpecVersions

\* capturePlatformState(), the page having the given elements and focus: the
\* state it builds, [h, ref]
ClientCapturePlatformState(h, now, random, elements, focus) ==
  AllocState(h, UIState(generateVersion(now, random), now, elements, focus))

\* captureState() after its await, state being the object at ref
ClientCaptureStateResume(h, client, ref) ==
  [client EXCEPT
     !.stateCache = RefAddState(h, @, ref),
     !.elementCache = ElementCacheAddElementsFrom(h, @, h.states[ref].elements, 1),
     !.currentState = Some(ref),
     !.lastVersion = h.states[ref].version]

\* The lists of mutations handed to handleDomMutations
WvMutationLists ==
  {<<>>,
   <<ChildList(<<ElLabel>>, <<>>)>>,
   <<TargetChanged("btn", Some([ElBtn EXCEPT !.text = Some("Submit")]))>>}

\* The variables of the other specifications, which SpecVersions leaves alone
WvOthers == <<lru, lruLast, sc, scLast, srv, srvLast, df, cx, cxLast, ch, cl, pa, ec,
              fl, nt, hs>>
WvOthersInit ==
  /\ lru = None
  /\ lruLast = None
  /\ sc = None
  /\ scLast = None
  /\ srv = None
  /\ srvLast = None
  /\ df = None
  /\ cx = None
  /\ cxLast = None
  /\ ch = None
  /\ cl = None
  /\ pa = None
  /\ ec = None
  /\ fl = None
  /\ nt = None
  /\ hs = None

\* pending lists the calls of captureState under way, each with the state it
\* built and the length of the log when it began; log is history: the
\* versions of the states of completed captureState calls and the updates
\* delivered to subscribers, in the order in which they happened
WvInit ==
  /\ wv = [h |-> NewHeap,
           client |-> NewClient(None),
           server |-> [maxHistoryStates |-> None, currentState |-> None,
                       stateHistory |-> <<>>],
           clock |-> 1, pending |-> <<>>, captures |-> 0, mutations |-> 0,
           log |-> <<>>]
  /\ WvOthersInit

\* client.subscribeToStateChanges(update => server.processStateUpdate(update)),
\* before anything else is done with the client
WvSubscribeStep ==
  /\ wv.client.subscribers = <<>>
  /\ wv.captures = 0
  /\ wv.mutations = 0
  /\ wv' = [wv EXCEPT !.client = ClientSubscribe(@)]
  /\ UNCHANGED WvOthers

\* captureState() up to its await
WvCaptureStateBeginStep ==
  \E elements \in ClElementDicts, random \in ClRandoms :
    /\ wv.captures < MaxPending
    /\ \E r \in {ClientCapturePlatformState(wv.h, wv.clock, random, elements, None)} :
         wv' = [wv EXCEPT !.h = r.h,
                          !.pending = Append(@, [ref |-> r.ref, seen |-> Len(wv.log)]),
                          !.clock = @ + 1, !.captures = @ + 1]
    /\ UNCHANGED WvOthers

\* captureState() from its await on, for the call that began first
WvCaptureStateResumeStep ==
  /\ wv.pending # <<>>
  /\ wv' = [wv EXCEPT
              !.client = ClientCaptureStateResume(wv.h, @, Head(wv.pending).ref),
              !.pending = Tail(@),
              !.log = Append(@, [kind |-> "captured",
                                 baseVersion |-> "",
                                 version |-> wv.h.states[Head(wv.pending).ref].version,
                                 seen |-> Head(wv.pending).seen])]
  /\ UNCHANGED WvOthers

\* The mutation observer calls handleDomMutations(mutations)
WvHandleDomMutationsStep ==
  \E mutations \in WvMutationLists, random \in ClRandoms, tick \in {0, 1} :
    /\ wv.mutations < MaxMutations
    /\ \E r \in {ClientHandleDomMutations(wv.h, wv.client, wv.server, wv.clock,
                                          random, mutations)} :
         wv' = [wv EXCEPT !.h = r.h, !.client = r.client, !.server = r.server,
                          !.clock = @ + tick, !.mutations = @ + 1,
                          !.log =
                            IF IsSome(r.update) /\ Len(wv.client.subscribers) > 0
                            THEN Append(@, [kind |-> "update",
                                            baseVersion |-> Val(r.update).baseVersion,
                                            version |-> Val(r.update).version,
                                            seen |-> Len(wv.log)])
                            ELSE @]
    /\ UNCHANGED WvOthers

WvNext ==
  \/ WvSubscribeStep
  \/ WvCaptureStateBeginStep
  \/ WvCaptureStateResumeStep
  \/ WvHandleDomMutationsStep

SpecVersions == WvInit /\ [][WvNext]_vars

C38_GreedyFillDropsNothingThatFits ==
  CxCut =>
    /\ estimateTokenCount(CxFiltered) <= CxMaxTokens
       => \A i \in 1..Len(CxSorted) : MHas(CxKept, CxSorted[i])
    /\ \A i \in 1..Len(CxSorted) :
         ~MHas(CxKept, CxSorted[i])
         => CxCostWith(i, MGet(CxFiltered.elements, CxSorted[i])) > CxMaxTokens

(***************************************************************************)
(* SpecHistory: a BaseMCPServer fed snapshots and patches, and the states  *)
(* that became its current state                                           *)
(***************************************************************************)
\* The variables of the other specifications, which SpecHistory leaves alone
HsOthers == <<lru, lruLast, sc, scLast, srv, srvLast, df, cx, cxLast, ch, cl, pa, ec,
              fl, nt, wv>>
HsOthersInit ==
  /\ lru = None
  /\ lruLast = None
  /\ sc = None
  /\ scLast = None
  /\ srv = None
  /\ srvLast = None
  /\ df = None
  /\ cx = None
  /\ cxLast = None
  /\ ch = None
  /\ cl = None
  /\ pa = None
  /\ ec = None
  /\ fl = None
  /\ nt = None
  /\ wv = None

\* processed is history: the states that were made current, in that order
HsInit ==
  /\ \E m \in {None} \cup {Some(n) : n \in 0..MaxHistory} :
       hs = [server |-> NewServer(ServerConfig(m, None, None)),
             processed |-> <<>>, calls |-> 0, threw |-> FALSE]
  /\ HsOthersInit

\* BaseMCPServer.processInitialState(state)
HsProcessInitialStateStep ==
  \E state \in ServerStates :
    /\ hs.calls < MaxServerCalls
    /\ hs' = [server |-> BaseProcessInitialState(hs.server, state),
              processed |-> Append(hs.processed, state),
              calls |-> hs.calls + 1, threw |-> FALSE]
    /\ UNCHANGED HsOthers

\* BaseMCPServer.processStateUpdate(update)
HsProcessStateUpdateStep ==
  \E update \in ServerUpdates :
    /\ hs.calls < MaxServerCalls
    /\ \E r \in {BaseProcessStateUpdate(hs.server, update)} :
         hs' = [server |-> r.s,
                processed |-> IF r.threw THEN hs.processed
                              ELSE Append(hs.processed, Val(r.s.currentState)),
                calls |-> hs.calls + 1, threw |-> r.threw]
    /\ UNCHANGED HsOthers

HsNext ==
  \/ HsProcessInitialStateStep
  \/ HsProcessStateUpdateStep

SpecHistory == HsInit /\ [][HsNext]_vars

\* The last n entries of a sequence, all of them when it has fewer
HsLast(seq, n) ==
  IF Len(seq) <= n THEN seq ELSE SubSeq(seq, Len(seq) - n + 1, Len(seq))

\* C39: after any sequence of processInitialState and processStateUpdate
\* calls the state history holds at most maxHistoryStates snapshots, and they
\* are the states processed last, in the order of their arrival; with
\* maxHistoryStates absent or 0 the history stays empty.
C39_BoundedServerHistory ==
  IF IsSome(hs.server.maxHistoryStates) /\ Val(hs.server.maxHistoryStates) # 0
  THEN /\ Len(hs.server.stateHistory) <= Val(hs.server.maxHistoryStates)
       /\ hs.server.stateHistory
            = HsLast(hs.processed, Val(hs.server.maxHistoryStates))
  ELSE hs.server.stateHistory = <<>>

\* A patched state has entered a full history, and the oldest state has left
C39_Witness ==
  /\ IsSome(hs.server.maxHistoryStates)
  /\ Val(hs.server.maxHistoryStates) > 1
  /\ Len(hs.processed) > Val(hs.server.maxHistoryStates)
  /\ Len(hs.server.stateHistory) = Val(hs.server.maxHistoryStates)
  /\ hs.server.stateHistory[Len(hs.server.stateHistory)] = Val(hs.server.currentState)
  /\ Val(hs.server.currentState).version # "v1"
  /\ hs.server.stateHistory[1] # hs.processed[1]
====
